---- MODULE Spec2Model ----
(***************************************************************************)
(* A model of mpm::Mesh<Tdim> (include/mesh.h, include/mesh.tcc): the      *)
(* entity containers and id maps, particle localisation, the domain        *)
(* decomposition bookkeeping and the MPI exchanges.                        *)
(*                                                                         *)
(* One Mesh instance lives on every MPI rank; mesh[r] is the state of the  *)
(* instance of rank r.  Entities are shared_ptr objects: an object is a    *)
(* record [id, k] (k tells apart two objects that carry the same id) and   *)
(* its mutable members live in the per-mesh heap fields of mesh[r].        *)
(* The geometry is a 1D chain (Tdim = 1): node n sits at coordinate 2n,    *)
(* cell c spans the nodes c and c+1, particle coordinates are integers.    *)
(***************************************************************************)
EXTENDS Integers, Sequences, FiniteSets, TLC

VARIABLES
  mesh,   \* mesh[r]: the Mesh instance of MPI rank r
  op,     \* the last call that returned: name, arguments, result
  env,    \* the build and the MPI world: mpi_size, USE_HALO_EXCHANGE
  task,   \* task[r]: the call rank r is in the middle of, with its locals
  net     \* net[<<s, d>>]: the messages rank s sent that rank d has not received

vars == <<mesh, op, env, task, net>>

----------------------------------------------------------------------------
\* Bounds of the model

NRanks == 2
NCells == 3
NPids == 2
NObjs == 2
MaxLen == 2
MaxEntities == 3
MaxDecompositions == 1

\* std::numeric_limits<mpm::Index>::max(), the "no cell" sentinel
INVALID == 255

Ranks == 0 .. (NRanks - 1)
CellIds == 0 .. (NCells - 1)
NodeIds == 0 .. NCells
PIds == 0 .. (NPids - 1)

NULL == [id |-> INVALID, k |-> 0]

\* the objects callers can hand to the mesh
NodeObjs == [id : NodeIds, k : 1 .. NObjs]
CellObjs == [id : CellIds, k : {1}]
\* (one object for every id, and NObjs objects for id 0)
ParticleObjs == {p \in [id : PIds, k : 1 .. NObjs] : p.id = 0 \/ p.k = 1}

\* a coordinate that no cell of the chain contains
Outside == 2 * NCells + 1
Points == 0 .. Outside

----------------------------------------------------------------------------
\* Container<T> and Map<T> (container.h, map.h)

ContainerHasId(c, id) == \E i \in 1 .. Len(c) : c[i].id = id

ContainerHas(c, e) == \E i \in 1 .. Len(c) : c[i] = e

\* Container::add: refused only when duplicates are checked and the id is there
ContainerAddStatus(c, e, check_duplicates) ==
  ~(check_duplicates /\ ContainerHasId(c, e.id))

ContainerAdd(c, e, check_duplicates) ==
  IF ContainerAddStatus(c, e, check_duplicates) THEN Append(c, e) ELSE c

\* Container::remove: erases the pointer, true iff something was erased
ContainerRemove(c, e) == SelectSeq(c, LAMBDA x : x # e)

ContainerIds(c) == {c[i].id : i \in 1 .. Len(c)}

EmptyMap == [x \in {} |-> NULL]

MapHas(m, id) == id \in DOMAIN m

\* Map::insert: keeps the entry already stored under the id
MapInsert(m, id, e) ==
  IF id \in DOMAIN m THEN m
  ELSE [x \in DOMAIN m \cup {id} |-> IF x = id THEN e ELSE m[x]]

MapRemove(m, id) == [x \in DOMAIN m \ {id} |-> m[x]]

\* The orders in which iterating a map can yield its entries
RECURSIVE Orders(_)
Orders(S) ==
  IF S = {} THEN {<<>>}
  ELSE UNION {{<<x>> \o t : t \in Orders(S \ {x})} : x \in S}

MapIterations(m) == {[i \in 1 .. Len(s) |-> m[s[i]]] : s \in Orders(DOMAIN m)}

----------------------------------------------------------------------------
\* Cell and ParticleBase members the mesh calls (cell.h, particle.h)

\* Cell::nodes_id
nodes_id(c) == <<c.id, c.id + 1>>

\* Cell::is_point_in_cell: the closed segment between the two nodes
is_point_in_cell(c, x) == 2 * c.id <= x /\ x <= 2 * c.id + 2

\* ParticleBase::remove_cell
particle_remove_cell(m, p) ==
  LET c == m.p_cell[p] IN
  [m EXCEPT !.cell_particles =
              IF c = NULL THEN @ ELSE [@ EXCEPT ![c] = @ \ {p.id}],
            !.p_cell = [@ EXCEPT ![p] = NULL],
            !.p_cell_id = [@ EXCEPT ![p] = INVALID]]

\* ParticleBase::assign_cell_xi / assign_cell: leave the old cell, join the new
particle_assign_cell(m, p, c) ==
  LET old == m.p_cell[p]
      left == IF old = NULL THEN m.cell_particles
              ELSE [m.cell_particles EXCEPT ![old] = @ \ {p.id}]
  IN [m EXCEPT !.cell_particles = [left EXCEPT ![c] = @ \cup {p.id}],
               !.p_cell = [@ EXCEPT ![p] = c],
               !.p_cell_id = [@ EXCEPT ![p] = c.id]]

\* ParticleBase::compute_reference_location
compute_reference_location(m, p) == is_point_in_cell(m.p_cell[p], m.p_coord[p])

----------------------------------------------------------------------------
\* The Mesh instance

\* mesh.h 494: int tbb_grain_size_{100}
tbb_grain_size_ == 100

EmptyMesh ==
  [nodes |-> <<>>, map_nodes |-> EmptyMap,
   cells |-> <<>>, map_cells |-> EmptyMap,
   particles |-> <<>>, map_particles |-> EmptyMap,
   particles_cell_ids |-> EmptyMap,
   domain_shared_nodes |-> <<>>, nhalo_nodes |-> 0, ncomms |-> 0,
   ghost_cells |-> <<>>, local_ghost_cells |-> <<>>,
   ghost_cells_neighbour_ranks |-> EmptyMap,
   node_mpi_ranks |-> [n \in NodeObjs |-> {}],
   node_ghost_id |-> [n \in NodeObjs |-> INVALID],
   node_mass |-> [n \in NodeObjs |-> 0],
   cell_rank |-> [c \in CellObjs |-> 0],
   cell_neighbours |-> [c \in CellObjs |-> {}],
   cell_particles |-> [c \in CellObjs |-> {}],
   p_coord |-> [p \in ParticleObjs |-> Outside],
   p_cell |-> [p \in ParticleObjs |-> NULL],
   p_cell_id |-> [p \in ParticleObjs |-> INVALID],
   tbb_grain_size |-> tbb_grain_size_,
   active_nodes |-> <<>>,
   node_status |-> [n \in NodeObjs |-> FALSE],
   particle_sets |-> EmptyMap,
   particle_velocity_constraints |-> <<>>,
   particle_tractions |-> <<>>,
   p_velocity |-> [p \in ParticleObjs |-> 0],
   p_traction |-> [p \in ParticleObjs |-> 0],
   materials |-> {},
   cell_sets |-> EmptyMap,
   cell_nodes |-> [c \in CellObjs |-> <<>>],
   p_material |-> [p \in ParticleObjs |-> INVALID]]

\* an operation's outcome: the mesh it leaves and what the caller gets
\* ("true", "false", "void", or "throws" when an exception leaves the call)
Outcome(m, ret) == [m |-> m, ret |-> ret]

Bool(b) == IF b THEN "true" ELSE "false"

----------------------------------------------------------------------------
\* Nodes and cells: add and remove (mesh.tcc 49-66, 257-274)

add_node(m, node, check_duplicates) ==
  LET insertion_status == ContainerAddStatus(m.nodes, node, check_duplicates) IN
  Outcome([m EXCEPT !.nodes = ContainerAdd(@, node, check_duplicates),
                    !.map_nodes = IF insertion_status
                                  THEN MapInsert(@, node.id, node) ELSE @],
          Bool(insertion_status))

remove_node(m, node) ==
  IF ContainerHas(m.nodes, node)
  THEN Outcome([m EXCEPT !.nodes = ContainerRemove(@, node),
                         !.map_nodes = MapRemove(@, node.id)],
               Bool(MapHas(m.map_nodes, node.id)))
  ELSE Outcome(m, "false")

add_cell(m, cell, check_duplicates) ==
  LET insertion_status == ContainerAddStatus(m.cells, cell, check_duplicates) IN
  Outcome([m EXCEPT !.cells = ContainerAdd(@, cell, check_duplicates),
                    !.map_cells = IF insertion_status
                                  THEN MapInsert(@, cell.id, cell) ELSE @],
          Bool(insertion_status))

remove_cell(m, cell) ==
  IF ContainerHas(m.cells, cell)
  THEN Outcome([m EXCEPT !.cells = ContainerRemove(@, cell),
                         !.map_cells = MapRemove(@, cell.id)],
               Bool(MapHas(m.map_cells, cell.id)))
  ELSE Outcome(m, "false")

----------------------------------------------------------------------------
\* Particle localisation (mesh.tcc 724-780)

\* the cells of the container that contain the particle's coordinates
ContainingCells(m, p) ==
  {m.cells[i] : i \in {j \in 1 .. Len(m.cells) :
                         is_point_in_cell(m.cells[j], m.p_coord[p])}}

\* lines 765-779: every cell is tested in parallel; each test that sees the
\* flag still false assigns the particle, so any containing cell can be the
\* one whose assignment stays
ScanAllCells(m, p) ==
  IF ContainingCells(m, p) = {} THEN {Outcome(m, "false")}
  ELSE {Outcome(particle_assign_cell(m, p, c), "true") : c \in ContainingCells(m, p)}

\* lines 753-762: the neighbours of the current cell, in ascending id order
\* (map_cells_[id] throws for an id the map does not hold)
NeighbourStops(m, p) ==
  LET cur == m.map_cells[m.p_cell_id[p]] IN
  {n \in m.cell_neighbours[cur] :
     \/ ~MapHas(m.map_cells, n)
     \/ is_point_in_cell(m.map_cells[n], m.p_coord[p])}

Min(S) == CHOOSE x \in S : \A y \in S : x <= y

\* (mutant) the scan of all cells, the neighbours untested
NeighboursUntested(m, p) == ScanAllCells(m, p)

CheckNeighbours(m, p) ==
  IF ~MapHas(m.map_cells, m.p_cell_id[p]) THEN {Outcome(m, "throws")}
  ELSE IF NeighbourStops(m, p) = {} THEN ScanAllCells(m, p)
  ELSE LET n == Min(NeighbourStops(m, p)) IN
       IF ~MapHas(m.map_cells, n) THEN {Outcome(m, "throws")}
       ELSE {Outcome(particle_assign_cell(m, p, m.map_cells[n]), "true")}

\* (mutant) the current cell is taken to still hold the particle, untested
CheckCurrentCellUntested(m, p) == {Outcome(m, "true")}

\* lines 747-751: the current cell first
CheckCurrentCell(m, p) ==
  IF compute_reference_location(m, p) THEN {Outcome(m, "true")}
  ELSE CheckNeighbours(m, p)

locate_particle_cells(m, p) ==
  IF m.p_cell_id[p] # INVALID
  THEN IF m.p_cell[p] = NULL
       THEN IF ~MapHas(m.map_cells, m.p_cell_id[p]) THEN {Outcome(m, "throws")}
            ELSE CheckCurrentCell(
                   particle_assign_cell(m, p, m.map_cells[m.p_cell_id[p]]), p)
       ELSE CheckCurrentCell(m, p)
  ELSE ScanAllCells(m, p)

----------------------------------------------------------------------------
\* Particles: add and remove (mesh.tcc 458-565)

\* lines 467-470 and 475-478
InsertParticle(m, p, checks) ==
  Outcome([m EXCEPT !.particles = ContainerAdd(@, p, checks),
                    !.particles_cell_ids = MapInsert(@, p.id, m.p_cell_id[p]),
                    !.map_particles = MapInsert(@, p.id, p)],
          Bool(ContainerAddStatus(m.particles, p, checks)))

\* every exception is caught inside add_particle and becomes status false
add_particle(m, p, checks) ==
  IF checks
  THEN {IF o.ret = "true" THEN InsertParticle(o.m, p, checks)
        ELSE Outcome(o.m, "false") : o \in locate_particle_cells(m, p)}
  ELSE {InsertParticle(m, p, checks)}

remove_particle(m, p) ==
  IF ~MapHas(m.map_particles, p.id) THEN Outcome(m, "throws")
  ELSE LET m1 == particle_remove_cell(m, m.map_particles[p.id]) IN
       IF ContainerHas(m1.particles, p)
       THEN Outcome([m1 EXCEPT !.particles = ContainerRemove(@, p),
                               !.map_particles = MapRemove(@, p.id)], "true")
       ELSE Outcome(m1, "false")

remove_particle_by_id(m, id) ==
  IF ~MapHas(m.map_particles, id) THEN Outcome(m, "throws")
  ELSE LET q == m.map_particles[id]
           m1 == particle_remove_cell(m, q) IN
       IF ContainerHas(m1.particles, q)
       THEN Outcome([m1 EXCEPT !.particles = ContainerRemove(@, q),
                               !.map_particles = MapRemove(@, id)], "true")
       ELSE Outcome(m1, "false")

\* lines 517-520 and 550-553: drop the ids from the map, one after the other
RECURSIVE RemoveFromMap(_, _)
RemoveFromMap(m, pids) ==
  IF pids = <<>> THEN Outcome(m, "void")
  ELSE IF ~MapHas(m.map_particles, Head(pids)) THEN Outcome(m, "throws")
  ELSE RemoveFromMap(
         [particle_remove_cell(m, m.map_particles[Head(pids)])
            EXCEPT !.map_particles = MapRemove(@, Head(pids))],
         Tail(pids))

\* lines 522-529 and 558-564: the container is refilled from the map
RefillFromMap(o) ==
  IF o.ret = "throws" THEN {o}
  ELSE {Outcome([o.m EXCEPT !.particles = s], "void") :
          s \in MapIterations(o.m.map_particles)}

remove_particles(m, pids) ==
  IF pids = <<>> THEN {Outcome(m, "void")}
  ELSE RefillFromMap(RemoveFromMap(m, pids))

RECURSIVE Ascending(_)
Ascending(S) == IF S = {} THEN <<>> ELSE <<Min(S)>> \o Ascending(S \ {Min(S)})

\* lines 545-556: the cells of other ranks, in container order
RECURSIVE ClearNonrankCells(_, _, _)
ClearNonrankCells(m, i, mpi_rank) ==
  IF i > Len(m.cells) THEN Outcome(m, "void")
  ELSE LET c == m.cells[i] IN
       IF m.cell_particles[c] # {} /\ m.cell_rank[c] # mpi_rank
       THEN LET o == RemoveFromMap(m, Ascending(m.cell_particles[c])) IN
            IF o.ret = "throws" THEN o
            ELSE ClearNonrankCells(
                   [o.m EXCEPT !.cell_particles = [@ EXCEPT ![c] = {}]],
                   i + 1, mpi_rank)
       ELSE ClearNonrankCells(m, i + 1, mpi_rank)

remove_all_nonrank_particles(m, mpi_rank) ==
  RefillFromMap(ClearNonrankCells(m, 1, mpi_rank))

\* lines 729-739: locate every particle of the container, in order, and list
\* the ones that were not found (an exception leaves the call as it is thrown)
RECURSIVE LocateFrom(_, _, _)
LocateFrom(m, i, unlocated) ==
  IF i > Len(m.particles)
  THEN {[m |-> m, ret |-> "void", particles |-> unlocated]}
  ELSE UNION {
         IF o.ret = "throws"
         THEN {[m |-> o.m, ret |-> "throws", particles |-> unlocated]}
         ELSE LocateFrom(o.m, i + 1,
                         IF o.ret = "false" THEN Append(unlocated, m.particles[i])
                         ELSE unlocated) :
         o \in locate_particle_cells(m, m.particles[i])}

locate_particles_mesh(m) == LocateFrom(m, 1, <<>>)

----------------------------------------------------------------------------
\* Specification Spec: one mesh (no MPI: mpi_rank 0), its callers add and
\* remove nodes, cells and particles in any order.

\* int mpi_rank = 0 of a build without MPI
SpecRank == 0

\* where the callers' particle objects sit: the first object of id 0 inside
\* cell 0, its other objects outside the mesh, the objects of the other ids on
\* the node shared by cells 0 and 1
SpecCoord(p) == IF p.id = 0 THEN (IF p.k = 1 THEN 1 ELSE Outside) ELSE 2

\* the nodes and cells its callers hand to the mesh of Spec
SpecNodes == {n \in NodeObjs : n.id = 0}
SpecCells == {c \in CellObjs : c.id <= 1}

\* the last call: its name, its arguments, what it returned, and the list
\* it handed back (locate_particles_mesh)
CallOut(name, arg, ret, out) == [name |-> name, arg |-> arg, ret |-> ret, out |-> out]

Call(name, arg, ret) == CallOut(name, arg, ret, <<>>)

\* a build without MPI: one process, rank 0
NoMPI == [mpi_size |-> 1, use_halo_exchange |-> FALSE, decompositions |-> 0]

\* no message in flight between the ranks of a world
NoMessages(world) == [pair \in world \X world |-> <<>>]

\* no call in progress
Idle == [name |-> "idle", pc |-> "", todo |-> {}, next |-> <<>>]

Init ==
  /\ mesh = [r \in {SpecRank} |->
               [EmptyMesh EXCEPT
                  !.p_coord = [p \in ParticleObjs |-> SpecCoord(p)],
                  !.cell_rank = [c \in CellObjs |-> c.id % NRanks]]]
  /\ op = Call("init", <<>>, "void")
  /\ env = NoMPI
  /\ task = [r \in {SpecRank} |-> Idle]
  /\ net = NoMessages({SpecRank})

\* the callers stop adding at MaxLen entities of a kind, MaxEntities in all
Room(m, c) ==
  /\ Len(c) < MaxLen
  /\ Len(m.nodes) + Len(m.cells) + Len(m.particles) < MaxEntities

Returns(r, o, name, arg) ==
  /\ mesh' = [mesh EXCEPT ![r] = o.m]
  /\ op' = Call(name, arg, o.ret)
  /\ UNCHANGED <<env, task, net>>

AddNode(r) ==
  \E node \in SpecNodes, check_duplicates \in BOOLEAN :
    Returns(r, add_node(mesh[r], node, check_duplicates),
               "add_node", <<node, check_duplicates>>)

RemoveNode(r) ==
  \E node \in SpecNodes :
    Returns(r, remove_node(mesh[r], node), "remove_node", <<node>>)

AddCell(r) ==
  \E cell \in SpecCells, check_duplicates \in BOOLEAN :
    Returns(r, add_cell(mesh[r], cell, check_duplicates),
               "add_cell", <<cell, check_duplicates>>)

RemoveCell(r) ==
  \E cell \in SpecCells :
    Returns(r, remove_cell(mesh[r], cell), "remove_cell", <<cell>>)

AddParticle(r) ==
  \E p \in ParticleObjs, checks \in BOOLEAN :
    \E o \in add_particle(mesh[r], p, checks) :
      Returns(r, o, "add_particle", <<p, checks>>)

RemoveParticle(r) ==
  \E p \in ParticleObjs :
    Returns(r, remove_particle(mesh[r], p), "remove_particle", <<p>>)

RemoveParticleById(r) ==
  \E id \in PIds :
    Returns(r, remove_particle_by_id(mesh[r], id), "remove_particle_by_id", <<id>>)

\* the id lists handed to remove_particles
PidLists == {<<>>} \cup {<<a>> : a \in PIds} \cup {<<a, b>> : a, b \in PIds}

RemoveParticles(r) ==
  \E pids \in PidLists :
    \E o \in remove_particles(mesh[r], pids) :
      Returns(r, o, "remove_particles", <<pids>>)

RemoveAllNonrankParticles(r) ==
  \E o \in remove_all_nonrank_particles(mesh[r], r) :
    Returns(r, o, "remove_all_nonrank_particles", <<>>)

Next ==
  \/ Room(mesh[SpecRank], mesh[SpecRank].nodes) /\ AddNode(SpecRank)
  \/ RemoveNode(SpecRank)
  \/ Room(mesh[SpecRank], mesh[SpecRank].cells) /\ AddCell(SpecRank)
  \/ RemoveCell(SpecRank)
  \/ Room(mesh[SpecRank], mesh[SpecRank].particles) /\ AddParticle(SpecRank)
  \/ RemoveParticle(SpecRank)
  \/ RemoveParticleById(SpecRank)
  \/ RemoveParticles(SpecRank)
  \/ RemoveAllNonrankParticles(SpecRank)

Spec == Init /\ [][Next]_vars


----------------------------------------------------------------------------
\* Cell neighbours (mesh.tcc 289-316)

Range(f) == {f[i] : i \in DOMAIN f}

\* lines 293-298: node id -> ids of the cells of the container on that node
node_cell_map(m, id) ==
  {m.cells[i].id : i \in {j \in 1 .. Len(m.cells) : id \in Range(nodes_id(m.cells[j]))}}

\* lines 301-315: Cell::add_neighbour adds to the set the cell already has
compute_cell_neighbours(m) ==
  [m EXCEPT !.cell_neighbours =
     [c \in DOMAIN @ |->
        IF ContainerHas(m.cells, c)
        THEN @[c] \cup (UNION {node_cell_map(m, id) : id \in Range(nodes_id(c))} \ {c.id})
        ELSE @[c]]]

\* a mesh as create_nodes, create_cells and compute_cell_neighbours build it:
\* the chain of NCells cells, cell c tagged with the owning rank ranks[c]
ChainMesh(ranks) ==
  compute_cell_neighbours(
    [EmptyMesh EXCEPT
       !.nodes = [i \in 1 .. NCells + 1 |-> [id |-> i - 1, k |-> 1]],
       !.map_nodes = [i \in NodeIds |-> [id |-> i, k |-> 1]],
       !.cells = [i \in 1 .. NCells |-> [id |-> i - 1, k |-> 1]],
       !.map_cells = [i \in CellIds |-> [id |-> i, k |-> 1]],
       !.cell_rank = [c \in CellObjs |-> ranks[c.id]]])

----------------------------------------------------------------------------
\* Specification SpecLocate: particles are added to a chain mesh, move, and
\* are located again.

InitLocate ==
  /\ mesh = [r \in {SpecRank} |->
               [ChainMesh([c \in CellIds |-> SpecRank]) EXCEPT
                  !.p_coord = [p \in ParticleObjs |-> SpecCoord(p)]]]
  /\ op = Call("init", <<>>, "void")
  /\ env = NoMPI
  /\ task = [r \in {SpecRank} |-> Idle]
  /\ net = NoMessages({SpecRank})

\* the solver moves a particle of the mesh (ParticleBase::compute_updated_position)
UpdatePosition(r) ==
  \E p \in Range(mesh[r].particles), x \in Points :
    /\ mesh' = [mesh EXCEPT ![r].p_coord[p] = x]
    /\ op' = Call("update_position", <<p, x>>, "void")
    /\ UNCHANGED <<env, task, net>>

LocateParticlesMesh(r) ==
  \E o \in locate_particles_mesh(mesh[r]) :
    /\ mesh' = [mesh EXCEPT ![r] = o.m]
    /\ op' = CallOut("locate_particles_mesh", <<>>, o.ret, o.particles)
    /\ UNCHANGED <<env, task, net>>

NextLocate ==
  \/ Len(mesh[SpecRank].particles) < MaxLen /\ AddParticle(SpecRank)
  \/ UpdatePosition(SpecRank)
  \/ LocateParticlesMesh(SpecRank)

SpecLocate == InitLocate /\ [][NextLocate]_vars

\* C3: after locate_particles_mesh returns, every particle in the mesh whose
\* cell id is not the INVALID sentinel lies geometrically inside that cell,
\* including the particles reported as unlocatable.
C3_ValidCellContainsParticle ==
  LET m == mesh[SpecRank] IN
  op.name = "locate_particles_mesh" =>
    \A p \in Range(m.particles) :
      m.p_cell_id[p] # INVALID =>
        /\ MapHas(m.map_cells, m.p_cell_id[p])
        /\ is_point_in_cell(m.map_cells[m.p_cell_id[p]], m.p_coord[p])

\* the particle p ends up in a cell of the mesh that contains it
AssignedToContainingCell(m, m2, p) ==
  /\ m2.p_cell[p] \in ContainingCells(m, p)
  /\ m2.p_cell_id[p] = m2.p_cell[p].id

\* C4: locate_particle_cells returns true if and only if some cell of the mesh
\* contains the particle's coordinates, and then the particle is assigned to a
\* cell that contains it (seen through add_particle with checks on, which also
\* refuses a duplicate id); locate_particles_mesh returns exactly the particles
\* of the container that no cell contains and leaves the container unchanged.
C4_LocateFindsContainingCell ==
  [][LET m == mesh[SpecRank]
         m2 == mesh'[SpecRank]
     IN /\ op'.name = "locate_particles_mesh" =>
             /\ op'.ret = "void"
             /\ m2.particles = m.particles
             /\ op'.out = SelectSeq(m.particles,
                                    LAMBDA p : ContainingCells(m, p) = {})
             /\ \A p \in Range(m.particles) :
                  ContainingCells(m, p) # {} => AssignedToContainingCell(m, m2, p)
        /\ (op'.name = "add_particle" /\ op'.arg[2]) =>
             LET p == op'.arg[1] IN
             /\ op'.ret = "true" <=>
                  (ContainingCells(m, p) # {} /\ ~ContainerHasId(m.particles, p.id))
             /\ ContainingCells(m, p) # {} => AssignedToContainingCell(m, m2, p)
    ]_vars

\* locate_particles_mesh has returned an unlocatable particle and has located
\* another one in the last cell of the chain, which only a moved particle reaches
C4_Witness ==
  LET m == mesh[SpecRank] IN
  /\ op.name = "locate_particles_mesh"
  /\ op.out # <<>>
  /\ \E p \in Range(m.particles) :
       /\ p \notin Range(op.out)
       /\ m.p_cell_id[p] = NCells - 1
       /\ is_point_in_cell(m.p_cell[p], m.p_coord[p])

----------------------------------------------------------------------------
\* Claims checked under Spec

InSync(container, map) ==
  /\ Len(container) = Cardinality(DOMAIN map)
  /\ ContainerIds(container) = DOMAIN map

\* C1: after any sequence of add and remove calls, each entity container
\* (nodes, cells, particles) holds exactly as many entities as its paired id
\* map, and both hold the same set of ids.
C1_ContainersMatchMaps ==
  LET m == mesh[SpecRank] IN
  /\ InSync(m.nodes, m.map_nodes)
  /\ InSync(m.cells, m.map_cells)
  /\ InSync(m.particles, m.map_particles)

\* what the claim calls "not in the mesh": the entity in no container,
\* the id in neither the particle container nor the particle map
AbsentCall(m, call) ==
  \/ call.name = "remove_node" /\ ~ContainerHas(m.nodes, call.arg[1])
  \/ call.name = "remove_cell" /\ ~ContainerHas(m.cells, call.arg[1])
  \/ call.name = "remove_particle" /\ ~ContainerHas(m.particles, call.arg[1])
  \/ /\ call.name = "remove_particle_by_id"
     /\ ~ContainerHasId(m.particles, call.arg[1])
     /\ ~MapHas(m.map_particles, call.arg[1])

\* C2: remove_node, remove_cell, remove_particle and remove_particle_by_id
\* called for an entity (or id) that is not in the mesh return false and leave
\* every container, id map and cell particle-id list unchanged.
C2_AbsentRemoveReturnsFalseNoEffect ==
  [][AbsentCall(mesh[SpecRank], op') => op'.ret = "false" /\ mesh' = mesh]_vars


----------------------------------------------------------------------------
\* Domain decomposition: ghost boundary cells (mesh.tcc 318-361) and domain
\* shared nodes (mesh.tcc 671-722)

\* operator[] of the rank map: the entry is created or overwritten
MapPut(m, id, e) == [x \in DOMAIN m \cup {id} |-> IF x = id THEN e ELSE m[x]]

unchecked_duplicates == FALSE

\* line 327
check_duplicates == TRUE

\* lines 338-346: the neighbours of a local cell, in the order of the id set
RECURSIVE GhostNeighbours(_, _, _, _)
GhostNeighbours(m, neighbours, mpi_rank, neighbour_ranks) ==
  IF neighbours = <<>>
  THEN [m |-> m, neighbour_ranks |-> neighbour_ranks, ret |-> "void"]
  ELSE IF ~MapHas(m.map_cells, Head(neighbours))
  THEN [m |-> m, neighbour_ranks |-> neighbour_ranks, ret |-> "throws"]
  ELSE LET n == m.map_cells[Head(neighbours)] IN
       IF m.cell_rank[n] # mpi_rank
       THEN GhostNeighbours(
              [m EXCEPT !.ghost_cells = ContainerAdd(@, n, check_duplicates)],
              Tail(neighbours), mpi_rank,
              neighbour_ranks \cup {m.cell_rank[n]})
       ELSE GhostNeighbours(m, Tail(neighbours), mpi_rank, neighbour_ranks)

\* lines 333-358: the cells in container order, from position i on
RECURSIVE GhostCells(_, _, _)
GhostCells(m, i, mpi_rank) ==
  IF i > Len(m.cells) THEN Outcome(m, "void")
  ELSE
    LET c == m.cells[i]
        n == IF m.cell_rank[c] = mpi_rank
             THEN GhostNeighbours(m, Ascending(m.cell_neighbours[c]),
                                  mpi_rank, {})
             ELSE [m |-> m, neighbour_ranks |-> {}, ret |-> "void"]
    IN IF n.ret = "throws" THEN Outcome(n.m, "throws")
       ELSE IF n.neighbour_ranks # {}
       THEN GhostCells(
              [n.m EXCEPT
                 !.local_ghost_cells = ContainerAdd(@, c, check_duplicates),
                 !.ghost_cells_neighbour_ranks =
                    MapPut(@, c.id, Ascending(n.neighbour_ranks))],
              i + 1, mpi_rank)
       ELSE GhostCells(n.m, i + 1, mpi_rank)

find_ghost_boundary_cells(m, mpi_rank, mpi_size) ==
  IF mpi_size > 1
  THEN GhostCells([m EXCEPT !.ghost_cells = <<>>,
                            !.local_ghost_cells = <<>>,
                            !.ghost_cells_neighbour_ranks = EmptyMap],
                  1, mpi_rank)
  ELSE Outcome(m, "void")

\* Node::clear_mpi_ranks
clear_mpi_ranks(m, n) == [m EXCEPT !.node_mpi_ranks[n] = {}]

\* Node::mpi_rank(rank): the insertion into the node's rank set, under its lock
node_mpi_rank(m, n, rank) == [m EXCEPT !.node_mpi_ranks[n] = @ \cup {rank}]

\* the j-th node object of a cell: the one create_cells took from the node map
cell_node(m, c, j) == m.map_nodes[nodes_id(c)[j]]

stale_count(count) == count

\* lines 693, 709: the counter of the build starts from zero
reset_count(count) == 0

on_any_rank(nodal_mpi_ranks, mpi_rank) == TRUE

\* lines 699, 717
on_rank(nodal_mpi_ranks, mpi_rank) == mpi_rank \in nodal_mpi_ranks

\* lines 694-707 (USE_HALO_EXCHANGE): the nodes from position i on
RECURSIVE SharedNodesExchange(_, _, _)
SharedNodesExchange(m, i, mpi_rank) ==
  IF i > Len(m.nodes) THEN m
  ELSE
    LET n == m.nodes[i]
        nodal_mpi_ranks == m.node_mpi_ranks[n]
        nodal_mpi_ranks_size == Cardinality(nodal_mpi_ranks)
    IN IF nodal_mpi_ranks_size > 1 /\ on_rank(nodal_mpi_ranks, mpi_rank)
       THEN SharedNodesExchange(
              [m EXCEPT !.node_ghost_id[n] = m.ncomms,
                        !.domain_shared_nodes = ContainerAdd(@, n, TRUE),
                        !.ncomms = @ + nodal_mpi_ranks_size - 1],
              i + 1, mpi_rank)
       ELSE SharedNodesExchange(m, i + 1, mpi_rank)

\* lines 710-720 (all-reduce build): the nodes from position i on
RECURSIVE SharedNodesReduce(_, _, _)
SharedNodesReduce(m, i, mpi_rank) ==
  IF i > Len(m.nodes) THEN m
  ELSE
    LET n == m.nodes[i]
        nodal_mpi_ranks == m.node_mpi_ranks[n]
    IN IF Cardinality(nodal_mpi_ranks) > 1
       THEN SharedNodesReduce(
              [m EXCEPT !.node_ghost_id[n] = m.nhalo_nodes,
                        !.nhalo_nodes = @ + 1,
                        !.domain_shared_nodes =
                           IF on_rank(nodal_mpi_ranks, mpi_rank)
                           THEN ContainerAdd(@, n, TRUE) ELSE @],
              i + 1, mpi_rank)
       ELSE SharedNodesReduce(m, i + 1, mpi_rank)

\* lines 690-721: what follows the two parallel loops
shared_nodes(m, mpi_rank, use_halo_exchange) ==
  IF use_halo_exchange
  THEN SharedNodesExchange(
         [m EXCEPT !.domain_shared_nodes = <<>>, !.ncomms = reset_count(@)],
         1, mpi_rank)
  ELSE SharedNodesReduce(
         [m EXCEPT !.domain_shared_nodes = <<>>, !.nhalo_nodes = reset_count(@)],
         1, mpi_rank)

----------------------------------------------------------------------------
\* Specifications SpecGhost and SpecShared: one process of an MPI world of
\* DomainSize ranks holds the chain mesh; a cell's owning rank changes, and
\* the process finds its ghost boundary cells (SpecGhost) or its domain
\* shared nodes (SpecShared).  The two parallel
\* loops of find_domain_shared_nodes run one task per node and one per cell,
\* interleaved step by step.

DomainSize == NRanks + 1

DomainRanks == 0 .. (DomainSize - 1)

InitDomain ==
  \E mpi_rank \in DomainRanks, ranks \in [CellIds -> DomainRanks],
     use_halo_exchange \in BOOLEAN :
    /\ mesh = [r \in {mpi_rank} |-> ChainMesh(ranks)]
    /\ op = Call("init", <<>>, "void")
    /\ env = [mpi_size |-> DomainSize, use_halo_exchange |-> use_halo_exchange,
              decompositions |-> 0]
    /\ task = [r \in {mpi_rank} |-> Idle]
    /\ net = NoMessages({mpi_rank})

\* Cell::rank(k): the domain decomposition tags a cell with its owning rank
AssignCellRank(r) ==
  \E i \in 1 .. Len(mesh[r].cells), k \in DomainRanks :
    /\ task[r] = Idle
    /\ env.decompositions < MaxDecompositions
    /\ mesh[r].cell_rank[mesh[r].cells[i]] # k
    /\ mesh' = [mesh EXCEPT ![r].cell_rank[mesh[r].cells[i]] = k]
    /\ op' = Call("rank", <<mesh[r].cells[i], k>>, "void")
    /\ env' = [env EXCEPT !.decompositions = @ + 1]
    /\ UNCHANGED <<task, net>>

FindGhostBoundaryCells(r) ==
  /\ task[r] = Idle
  /\ LET o == find_ghost_boundary_cells(mesh[r], r, env.mpi_size) IN
       /\ mesh' = [mesh EXCEPT ![r] = o.m]
       /\ op' = CallOut("find_ghost_boundary_cells", <<>>, o.ret, <<op.name>>)
  /\ UNCHANGED <<env, task, net>>

\* line 675: the call starts, one task per entry of the node container
FindDomainSharedNodes(r) ==
  /\ task[r] = Idle
  /\ task' = [task EXCEPT ![r] =
                [name |-> "find_domain_shared_nodes", pc |-> "clear",
                 todo |-> 1 .. Len(mesh[r].nodes), next |-> <<>>]]
  /\ UNCHANGED <<mesh, op, env, net>>

\* lines 676-678: one task of the first loop
ClearMpiRanks(r) ==
  \E i \in task[r].todo :
    /\ task[r].pc = "clear"
    /\ mesh' = [mesh EXCEPT ![r] = clear_mpi_ranks(@, mesh[r].nodes[i])]
    /\ task' = [task EXCEPT ![r].todo = @ \ {i}]
    /\ UNCHANGED <<op, env, net>>

\* line 685: the first loop has joined, one task per entry of the cell container
StartAssign(r) ==
  /\ task[r].pc = "clear"
  /\ task[r].todo = {}
  /\ task' = [task EXCEPT ![r].pc = "assign",
                          ![r].next = [i \in 1 .. Len(mesh[r].cells) |-> 1]]
  /\ UNCHANGED <<mesh, op, env, net>>

\* lines 686-688: one step of one task of the second loop:
\* Cell::assign_mpi_rank_to_nodes hands the cell's rank to its next node
AssignMpiRankToNodes(r) ==
  \E i \in DOMAIN task[r].next :
    LET c == mesh[r].cells[i]
        j == task[r].next[i]
    IN /\ task[r].pc = "assign"
       /\ j <= Len(nodes_id(c))
       /\ mesh' = [mesh EXCEPT ![r] =
                     node_mpi_rank(@, cell_node(mesh[r], c, j),
                                   mesh[r].cell_rank[c])]
       /\ task' = [task EXCEPT ![r].next[i] = j + 1]
       /\ UNCHANGED <<op, env, net>>

\* lines 690-722: the second loop has joined; the shared nodes are collected
\* and the call returns
CollectSharedNodes(r) ==
  /\ task[r].pc = "assign"
  /\ \A i \in DOMAIN task[r].next :
       task[r].next[i] > Len(nodes_id(mesh[r].cells[i]))
  /\ mesh' = [mesh EXCEPT ![r] = shared_nodes(@, r, env.use_halo_exchange)]
  /\ op' = CallOut("find_domain_shared_nodes", <<>>, "void", <<op.name>>)
  /\ task' = [task EXCEPT ![r] = Idle]
  /\ UNCHANGED <<env, net>>

NextGhost ==
  \/ \E r \in DOMAIN mesh : AssignCellRank(r)
  \/ \E r \in DOMAIN mesh : FindGhostBoundaryCells(r)

SpecGhost == InitDomain /\ [][NextGhost]_vars

NextShared ==
  \/ \E r \in DOMAIN mesh : AssignCellRank(r)
  \/ \E r \in DOMAIN mesh : FindDomainSharedNodes(r)
  \/ \E r \in DOMAIN mesh : ClearMpiRanks(r)
  \/ \E r \in DOMAIN mesh : StartAssign(r)
  \/ \E r \in DOMAIN mesh : AssignMpiRankToNodes(r)
  \/ \E r \in DOMAIN mesh : CollectSharedNodes(r)

SpecShared == InitDomain /\ [][NextShared]_vars


NoDuplicates(c) == \A i, j \in 1 .. Len(c) : c[i] = c[j] => i = j

\* the cells of the mesh that neighbour cell c and belong to another rank
RemoteNeighbours(m, c, mpi_rank) ==
  {d \in Range(m.cells) : d.id \in m.cell_neighbours[c] /\ m.cell_rank[d] # mpi_rank}

LocalCells(m, mpi_rank) == {c \in Range(m.cells) : m.cell_rank[c] = mpi_rank}

GhostResult(m, mpi_rank) ==
  /\ NoDuplicates(m.ghost_cells)
  /\ Range(m.ghost_cells) =
       UNION {RemoteNeighbours(m, c, mpi_rank) : c \in LocalCells(m, mpi_rank)}
  /\ NoDuplicates(m.local_ghost_cells)
  /\ Range(m.local_ghost_cells) =
       {c \in LocalCells(m, mpi_rank) : RemoteNeighbours(m, c, mpi_rank) # {}}
  /\ Range(m.ghost_cells) \cap Range(m.local_ghost_cells) = {}
  /\ DOMAIN m.ghost_cells_neighbour_ranks = ContainerIds(m.local_ghost_cells)
  /\ \A c \in Range(m.local_ghost_cells) :
       /\ NoDuplicates(m.ghost_cells_neighbour_ranks[c.id])
       /\ Range(m.ghost_cells_neighbour_ranks[c.id]) =
            {m.cell_rank[d] : d \in RemoteNeighbours(m, c, mpi_rank)}

GhostFields(m) ==
  <<m.ghost_cells, m.local_ghost_cells, m.ghost_cells_neighbour_ranks>>

\* C10: when find_ghost_boundary_cells has returned on a process of a world
\* of more than one rank, ghost_cells holds, each once, exactly the cells of
\* other ranks that neighbour a cell of the local rank, local_ghost_cells
\* holds, each once, exactly the local cells with a neighbour of another
\* rank, the two have no cell in common, and the rank list of every local
\* ghost cell is the duplicate-free set of its remote neighbours' ranks; a
\* call that follows another one leaves all three as they were.
C10_GhostBoundaryCells ==
  [][\A r \in DOMAIN mesh :
       /\ op'.name = "find_ghost_boundary_cells" => GhostResult(mesh'[r], r)
       /\ (op.name = "find_ghost_boundary_cells"
             /\ op'.name = "find_ghost_boundary_cells")
          => GhostFields(mesh'[r]) = GhostFields(mesh[r])]_vars

\* a second call in a row has returned; a local ghost cell has neighbours of
\* two other ranks
C10_Witness ==
  \E r \in DOMAIN mesh :
    /\ op.name = "find_ghost_boundary_cells"
    /\ op.out = <<"find_ghost_boundary_cells">>
    /\ mesh[r].ghost_cells # <<>>
    /\ \E c \in Range(mesh[r].local_ghost_cells) :
         Len(mesh[r].ghost_cells_neighbour_ranks[c.id]) = 2

\* the owning ranks of the cells of the mesh that contain node n
RanksOfCellsOn(m, n) ==
  {m.cell_rank[c] : c \in {d \in Range(m.cells) : n.id \in Range(nodes_id(d))}}

SharedOnRank(m, mpi_rank) ==
  {n \in Range(m.nodes) :
     Cardinality(m.node_mpi_ranks[n]) > 1 /\ mpi_rank \in m.node_mpi_ranks[n]}

\* C8: when find_domain_shared_nodes has returned, whatever the order in
\* which the tasks of its two parallel loops ran, the rank set of every node
\* is the set of owning ranks of the cells that contain it, and
\* domain_shared_nodes holds exactly the nodes whose rank set has more than
\* one rank, the local rank among them.
C8_SharedNodesFromCellRanks ==
  \A r \in DOMAIN mesh :
    (op.name = "find_domain_shared_nodes" /\ task[r] = Idle) =>
      /\ \A n \in Range(mesh[r].nodes) :
           mesh[r].node_mpi_ranks[n] = RanksOfCellsOn(mesh[r], n)
      /\ Range(mesh[r].domain_shared_nodes) = SharedOnRank(mesh[r], r)

\* the call has returned after the ranks changed: the container holds a
\* shared node, and leaves out a node shared by two other ranks
C8_Witness ==
  \E r \in DOMAIN mesh :
    /\ op.name = "find_domain_shared_nodes"
    /\ task[r] = Idle
    /\ env.decompositions > 0
    /\ mesh[r].domain_shared_nodes # <<>>
    /\ \E n \in Range(mesh[r].nodes) :
         Cardinality(mesh[r].node_mpi_ranks[n]) > 1
           /\ r \notin mesh[r].node_mpi_ranks[n]

SharedFields(m) ==
  <<m.domain_shared_nodes, m.node_ghost_id, m.nhalo_nodes, m.ncomms>>

\* C9: a call of find_domain_shared_nodes that returns when the call before
\* it was find_domain_shared_nodes too, nothing having changed nodes, cells
\* or owning ranks in between, leaves domain_shared_nodes (nodes and order),
\* every node's ghost id, nhalo_nodes_ and ncomms_ as the first call left them.
C9_SharedNodesIdempotent ==
  [][\A r \in DOMAIN mesh :
       (op.name = "find_domain_shared_nodes"
          /\ op'.name = "find_domain_shared_nodes"
          /\ task[r].pc = "assign" /\ task'[r] = Idle)
       => SharedFields(mesh'[r]) = SharedFields(mesh[r])]_vars

\* a second call in a row has returned, with two shared nodes in the container
C9_Witness ==
  \E r \in DOMAIN mesh :
    /\ op.name = "find_domain_shared_nodes"
    /\ op.out = <<"find_domain_shared_nodes">>
    /\ task[r] = Idle
    /\ Len(mesh[r].domain_shared_nodes) = 2


----------------------------------------------------------------------------
\* MPI point-to-point messages in standard mode (MPI_Isend, MPI_Send,
\* MPI_Wait, MPI_Recv)

\* a message: `eager` says whether the library buffered it when it was sent,
\* which completes the send at once, or keeps the send pending until a
\* receive matches it; i numbers the sends of one call
Message(kind, tag, i, val, eager) ==
  [kind |-> kind, tag |-> tag, i |-> i, val |-> val, eager |-> eager]

Post(n, src, dst, msg) == [n EXCEPT ![<<src, dst>>] = Append(@, msg)]

\* the send of message (kind, i) from src to dst is complete: the message
\* was buffered or has been received
SendComplete(n, src, dst, kind, i) ==
  \A x \in 1 .. Len(n[<<src, dst>>]) :
    (n[<<src, dst>>][x].kind = kind /\ n[<<src, dst>>][x].i = i)
      => n[<<src, dst>>][x].eager

----------------------------------------------------------------------------
\* transfer_nonrank_particles (mesh.tcc 567-669)

\* ParticleBase::hdf5: the interchange record of a particle
hdf5(m, p) ==
  [id |-> p.id, coordinates |-> m.p_coord[p], cell_id |-> m.p_cell_id[p],
   velocity |-> m.p_velocity[p], material_id |-> m.p_material[p]]

\* a value-initialised record (line 639)
EmptyRecord ==
  [id |-> 0, coordinates |-> 0, cell_id |-> 0, velocity |-> 0, material_id |-> 0]

\* line 651: the object make_shared creates, one the mesh does not hold
Received(m, id) ==
  LET free == {q \in ParticleObjs :
                 q.id = id /\ ~ContainerHas(m.particles, q)
                   /\ (MapHas(m.map_particles, id) => m.map_particles[id] # q)}
  IN IF free = {} THEN [id |-> id, k |-> 1]
     ELSE CHOOSE q \in free : \A x \in free : x.k <= q.k

\* lines 645-662: a received record becomes a particle, added with checks
received_particle(m, rparticle) ==
  LET q == Received(m, rparticle.id) IN
  add_particle([m EXCEPT !.p_coord[q] = rparticle.coordinates,
                         !.p_cell[q] = NULL,
                         !.p_cell_id[q] = rparticle.cell_id],
               q, TRUE)

\* line 645: the received records one after the other; ms are the meshes the
\* additions so far can have left
RECURSIVE AddReceived(_, _)
AddReceived(ms, recv_particles) ==
  IF recv_particles = <<>> THEN ms
  ELSE AddReceived(
         UNION {{o.m : o \in received_particle(m, Head(recv_particles))} : m \in ms},
         Tail(recv_particles))

\* line 623: operator[] of the rank map, an empty list for a missing cell
neighbour_ranks(m, c) ==
  IF MapHas(m.ghost_cells_neighbour_ranks, c.id)
  THEN m.ghost_cells_neighbour_ranks[c.id] ELSE <<>>

\* lines 621-626: the next (local ghost cell, neighbour rank) at or after
\* position (j, k); j is past the container when there is none
RECURSIVE NextReceive(_, _, _)
NextReceive(m, j, k) ==
  IF j > Len(m.local_ghost_cells) THEN [j |-> j, k |-> 1]
  ELSE IF k <= Len(neighbour_ranks(m, m.local_ghost_cells[j]))
  THEN [j |-> j, k |-> k]
  ELSE NextReceive(m, j + 1, 1)

\* lines 578-582, and what the claims need of the state at the call: the
\* size of the container (nbefore) and the particles sent with the rank
\* they were sent to (sent)
TransferTask(m, mpi_size) ==
  [name |-> "transfer_nonrank_particles",
   pc |-> IF mpi_size > 1 THEN "send" ELSE "return",
   i |-> 1, remove_pids |-> <<>>, send_requests |-> <<>>,
   h5_particles |-> <<>>, nparticles |-> 0,
   j |-> 1, k |-> 1, nrecv_particles |-> 0,
   nbefore |-> Len(m.particles), sent |-> {}]

InTransfer(r, pc) ==
  task[r].name = "transfer_nonrank_particles" /\ task[r].pc = pc

BeginTransfer(r) ==
  /\ task[r] = Idle
  /\ task' = [task EXCEPT ![r] = TransferTask(mesh[r], env.mpi_size)]
  /\ UNCHANGED <<mesh, op, env, net>>

\* lines 584-603: the records of the particles of ghost cell i are collected,
\* the cell's id list is cleared and the count is sent without blocking
SendCount(r) ==
  /\ InTransfer(r, "send")
  /\ task[r].i <= Len(mesh[r].ghost_cells)
  /\ LET m == mesh[r]
         c == m.ghost_cells[task[r].i]
         particle_ids == Ascending(m.cell_particles[c])
     IN IF \E x \in 1 .. Len(particle_ids) : ~MapHas(m.map_particles, particle_ids[x])
        THEN /\ task' = [task EXCEPT ![r].pc = "aborted"]
             /\ UNCHANGED <<mesh, net>>
        ELSE \E eager \in BOOLEAN :
               LET h5_particles == [x \in 1 .. Len(particle_ids) |->
                                      hdf5(m, m.map_particles[particle_ids[x]])]
                   nparticles == Len(h5_particles)
               IN /\ mesh' = [mesh EXCEPT ![r].cell_particles[c] = {}]
                  /\ net' = Post(net, r, m.cell_rank[c],
                                 Message("count", 0, task[r].i, nparticles, eager))
                  /\ task' = [task EXCEPT
                       ![r].remove_pids = @ \o particle_ids,
                       ![r].sent = @ \cup
                          {[p |-> m.map_particles[particle_ids[x]],
                            to |-> m.cell_rank[c]] : x \in 1 .. Len(particle_ids)},
                       ![r].send_requests = Append(@, m.cell_rank[c]),
                       ![r].h5_particles = h5_particles,
                       ![r].nparticles = nparticles,
                       ![r].pc = IF nparticles # 0 THEN "batch" ELSE "send",
                       ![r].i = IF nparticles # 0 THEN @ ELSE @ + 1]
  /\ UNCHANGED <<op, env>>

\* lines 604-610: MPI_Send of the records is called
SendBatch(r) ==
  /\ InTransfer(r, "batch")
  /\ \E eager \in BOOLEAN :
       net' = Post(net, r, task[r].send_requests[task[r].i],
                   Message("batch", 0, task[r].i, task[r].h5_particles, eager))
  /\ task' = [task EXCEPT ![r].pc = "sending"]
  /\ UNCHANGED <<mesh, op, env>>

\* lines 608-613: MPI_Send returns when its send is complete
SendBatchReturns(r) ==
  /\ InTransfer(r, "sending")
  /\ SendComplete(net, r, task[r].send_requests[task[r].i], "batch", task[r].i)
  /\ task' = [task EXCEPT ![r].pc = "send", ![r].i = @ + 1,
                          ![r].h5_particles = <<>>]
  /\ UNCHANGED <<mesh, op, env, net>>

\* line 615: the sent particles are removed
RemoveSent(r) ==
  /\ InTransfer(r, "send")
  /\ task[r].i > Len(mesh[r].ghost_cells)
  /\ \E o \in remove_particles(mesh[r], task[r].remove_pids) :
       /\ mesh' = [mesh EXCEPT ![r] = o.m]
       /\ task' = [task EXCEPT ![r].pc = IF o.ret = "throws" THEN "aborted" ELSE "wait",
                               ![r].i = 1]
  /\ UNCHANGED <<op, env, net>>

\* lines 617-618: MPI_Wait for the count sent for ghost cell i
WaitSend(r) ==
  /\ InTransfer(r, "wait")
  /\ task[r].i <= Len(mesh[r].ghost_cells)
  /\ SendComplete(net, r, task[r].send_requests[task[r].i], "count", task[r].i)
  /\ task' = [task EXCEPT ![r].i = @ + 1]
  /\ UNCHANGED <<mesh, op, env, net>>

\* line 621: the waits are over, the receive loops start
StartReceive(r) ==
  /\ InTransfer(r, "wait")
  /\ task[r].i > Len(mesh[r].ghost_cells)
  /\ LET nxt == NextReceive(mesh[r], 1, 1) IN
       task' = [task EXCEPT
                  ![r].pc = IF nxt.j > Len(mesh[r].local_ghost_cells)
                            THEN "return" ELSE "recv",
                  ![r].j = nxt.j, ![r].k = nxt.k]
  /\ UNCHANGED <<mesh, op, env, net>>

\* the sender of the receive at position (j, k)
Sender(r) == neighbour_ranks(mesh[r], mesh[r].local_ghost_cells[task[r].j])[task[r].k]

\* what a receive finds in the count buffer of the sender: the value copied
\* at the send when the message was buffered; otherwise the content of
\* `nparticles` (line 600) when the data is moved, which is the variable of
\* the iteration the sender is in while it is in the send loop, and released
\* stack memory after the loop
CountRead(msg, src) ==
  IF msg.eager THEN {msg.val}
  ELSE IF task[src].pc \in {"send", "batch", "sending"} THEN {task[src].nparticles}
  ELSE 0 .. NPids

\* the task after the receives at position (j, k) are done
Advance(t, m) ==
  LET nxt == NextReceive(m, t.j, t.k + 1) IN
  [t EXCEPT !.pc = IF nxt.j > Len(m.local_ghost_cells) THEN "return" ELSE "recv",
            !.j = nxt.j, !.k = nxt.k]

\* lines 627-634: MPI_Recv of one unsigned from the neighbour rank; all
\* messages have tag 0, so the oldest message of that rank is matched, and a
\* batch of records there is a type mismatch, which ends the process
RecvCount(r) ==
  /\ InTransfer(r, "recv")
  /\ net[<<Sender(r), r>>] # <<>>
  /\ LET msg == Head(net[<<Sender(r), r>>]) IN
       IF msg.kind # "count"
       THEN /\ task' = [task EXCEPT ![r].pc = "aborted"]
            /\ UNCHANGED net
       ELSE \E nrecv_particles \in CountRead(msg, Sender(r)) :
              /\ net' = [net EXCEPT ![<<Sender(r), r>>] = Tail(@)]
              /\ task' = [task EXCEPT ![r] =
                   IF nrecv_particles # 0
                   THEN [@ EXCEPT !.pc = "recv_batch",
                                  !.nrecv_particles = nrecv_particles]
                   ELSE Advance([@ EXCEPT !.nrecv_particles = 0], mesh[r])]
  /\ UNCHANGED <<mesh, op, env>>

\* lines 636-663: MPI_Recv of nrecv_particles records; a count message there,
\* or more records than asked for, ends the process; with fewer records the
\* rest of the buffer stays value-initialised
RecvBatch(r) ==
  /\ InTransfer(r, "recv_batch")
  /\ net[<<Sender(r), r>>] # <<>>
  /\ LET msg == Head(net[<<Sender(r), r>>]) IN
       IF msg.kind # "batch" \/ Len(msg.val) > task[r].nrecv_particles
       THEN /\ task' = [task EXCEPT ![r].pc = "aborted"]
            /\ UNCHANGED <<mesh, net>>
       ELSE LET recv_particles ==
                  [x \in 1 .. task[r].nrecv_particles |->
                     IF x <= Len(msg.val) THEN msg.val[x] ELSE EmptyRecord]
            IN /\ \E m \in AddReceived({mesh[r]}, recv_particles) :
                    mesh' = [mesh EXCEPT ![r] = m]
               /\ net' = [net EXCEPT ![<<Sender(r), r>>] = Tail(@)]
               /\ task' = [task EXCEPT ![r] = Advance(@, mesh[r])]
  /\ UNCHANGED <<op, env>>

\* line 669
TransferReturns(r) ==
  /\ InTransfer(r, "return")
  /\ task' = [task EXCEPT ![r].pc = "returned"]
  /\ op' = Call("transfer_nonrank_particles", <<r>>, "void")
  /\ UNCHANGED <<mesh, env, net>>

----------------------------------------------------------------------------
\* Specification SpecTransfer: the NRanks ranks of an MPI world hold the chain
\* mesh with the same owning ranks, each with its own particles, have found
\* their ghost boundary cells, and call transfer_nonrank_particles once.

NoCell == INVALID

\* the middle of cell id
Centre(id) == 2 * id + 1

\* the particles a rank holds: held[id] is the cell particle id is in
RECURSIVE WithParticles(_, _, _)
WithParticles(m, held, id) ==
  IF id >= NPids THEN m
  ELSE IF held[id] = NoCell THEN WithParticles(m, held, id + 1)
  ELSE LET p == [id |-> id, k |-> 1]
           o == CHOOSE o \in add_particle(
                  [m EXCEPT !.p_coord[p] = Centre(held[id])], p, TRUE) : TRUE
       IN WithParticles(o.m, held, id + 1)

\* particle ids are unique within a mesh; across ranks id 0 can be in use twice
Placements ==
  {held \in [Ranks -> [PIds -> CellIds \cup {NoCell}]] :
     \A id \in PIds \ {0} :
       Cardinality({r \in Ranks : held[r][id] # NoCell}) <= 1}

InitTransfer ==
  \E ranks \in [CellIds -> Ranks], held \in Placements :
    /\ mesh = [r \in Ranks |->
                 find_ghost_boundary_cells(
                   WithParticles(ChainMesh(ranks), held[r], 0), r, NRanks).m]
    /\ op = Call("init", <<>>, "void")
    /\ env = [mpi_size |-> NRanks, use_halo_exchange |-> FALSE,
              decompositions |-> 0]
    /\ task = [r \in Ranks |-> Idle]
    /\ net = NoMessages(Ranks)

NextTransfer ==
  \/ \E r \in DOMAIN mesh : BeginTransfer(r)
  \/ \E r \in DOMAIN mesh : SendCount(r)
  \/ \E r \in DOMAIN mesh : SendBatch(r)
  \/ \E r \in DOMAIN mesh : SendBatchReturns(r)
  \/ \E r \in DOMAIN mesh : RemoveSent(r)
  \/ \E r \in DOMAIN mesh : WaitSend(r)
  \/ \E r \in DOMAIN mesh : StartReceive(r)
  \/ \E r \in DOMAIN mesh : RecvCount(r)
  \/ \E r \in DOMAIN mesh : RecvBatch(r)
  \/ \E r \in DOMAIN mesh : TransferReturns(r)

SpecTransfer == InitTransfer /\ [][NextTransfer]_vars

Sum(f) == LET RECURSIVE S(_)
              S(D) == IF D = {} THEN 0
                      ELSE LET x == CHOOSE x \in D : TRUE IN f[x] + S(D \ {x})
          IN S(DOMAIN f)

AllReturned == \A r \in DOMAIN mesh : task[r].pc = "returned"

\* C5: when every rank has returned from transfer_nonrank_particles, every
\* particle that was in a ghost cell of a rank at its call is no longer in
\* that rank's container and map, its id is in the container and in the map
\* of the rank that owns the cell, and the ranks hold together as many
\* particles as they held at their calls.
C5_TransferMovesGhostParticles ==
  AllReturned =>
    /\ \A r \in DOMAIN mesh : \A x \in task[r].sent :
         /\ ~ContainerHas(mesh[r].particles, x.p)
         /\ MapHas(mesh[r].map_particles, x.p.id) => mesh[r].map_particles[x.p.id] # x.p
         /\ ContainerHasId(mesh[x.to].particles, x.p.id)
         /\ MapHas(mesh[x.to].map_particles, x.p.id)
    /\ Sum([r \in DOMAIN mesh |-> Len(mesh[r].particles)])
         = Sum([r \in DOMAIN mesh |-> task[r].nbefore])

\* C6: while a rank has not returned from transfer_nonrank_particles, some
\* rank can take a step: no state is reached in which the ranks that have
\* not returned all block in a send, a wait or a receive.  (A behaviour takes
\* a bounded number of steps, so this is the same as every rank returning.)
C6_TransferReturns == AllReturned \/ ENABLED NextTransfer

----------------------------------------------------------------------------
\* nodal_halo_exchange (mesh.tcc 117-204), called with the nodal mass as the
\* property: getter reads node_mass, setter writes it

\* the node objects of a cell: those create_cells gave it, or those of the
\* chain
CellNodeObjs(m, c) ==
  IF m.cell_nodes[c] # <<>> THEN Range(m.cell_nodes[c])
  ELSE {cell_node(m, c, j) : j \in 1 .. Len(nodes_id(c))}

\* find_domain_shared_nodes run to its end (lines 673-722)
find_domain_shared_nodes(m, mpi_rank, use_halo_exchange) ==
  LET cleared == [n \in NodeObjs |->
                    IF ContainerHas(m.nodes, n) THEN {} ELSE m.node_mpi_ranks[n]]
      assigned == [n \in NodeObjs |->
                     cleared[n] \cup
                       {m.cell_rank[c] : c \in {d \in Range(m.cells) :
                          n \in CellNodeObjs(m, d)}}]
  IN shared_nodes([m EXCEPT !.node_mpi_ranks = assigned], mpi_rank,
                  use_halo_exchange)

\* lines 143-146: the ranks node i of domain_shared_nodes is sent to
OtherRanks(m, i, mpi_rank) ==
  Ascending(m.node_mpi_ranks[m.domain_shared_nodes[i]] \ {mpi_rank})

\* the next (shared node, other rank) at or after position (i, x)
RECURSIVE NextExchange(_, _, _, _)
NextExchange(m, i, x, mpi_rank) ==
  IF i > Len(m.domain_shared_nodes) THEN [i |-> i, x |-> 1]
  ELSE IF x <= Len(OtherRanks(m, i, mpi_rank)) THEN [i |-> i, x |-> x]
  ELSE NextExchange(m, i + 1, 1, mpi_rank)

\* lines 124-139 and 186-187
HaloTask(m, mpi_size, use_halo_exchange) ==
  [name |-> "nodal_halo_exchange",
   pc |-> IF ~use_halo_exchange THEN "gather"
          ELSE IF mpi_size > 1 THEN "send" ELSE "return",
   nnodes |-> Len(m.domain_shared_nodes),
   i |-> 0, x |-> 1, j |-> 0, property |-> 0, send_requests |-> <<>>,
   prop_get |-> <<>>]

InHalo(r, pc) == task[r].name = "nodal_halo_exchange" /\ task[r].pc = pc

\* the position after (i, x) in the two nested loops; i = 0 before the first
Following(r) ==
  NextExchange(mesh[r], IF task[r].i = 0 THEN 1 ELSE task[r].i,
               IF task[r].i = 0 THEN 1 ELSE task[r].x + 1, r)

BeginHalo(r) ==
  /\ task[r] = Idle
  /\ task' = [task EXCEPT ![r] =
                HaloTask(mesh[r], env.mpi_size, env.use_halo_exchange)]
  /\ UNCHANGED <<mesh, op, env, net>>

\* lines 142-151: one MPI_Isend of `property`, the variable of the iteration
\* of the node loop, which the getter filled when the iteration started
HaloSend(r) ==
  /\ InHalo(r, "send")
  /\ Following(r).i <= task[r].nnodes
  /\ LET m == mesh[r]
         nxt == Following(r)
         node == m.domain_shared_nodes[nxt.i]
         property == IF nxt.i # task[r].i THEN m.node_mass[node]
                     ELSE task[r].property
         node_rank == OtherRanks(m, nxt.i, r)[nxt.x]
     IN \E eager \in BOOLEAN :
          /\ net' = Post(net, r, node_rank,
                         Message("property", node.id, task[r].j + 1,
                                 property, eager))
          /\ task' = [task EXCEPT
                        ![r].i = nxt.i, ![r].x = nxt.x,
                        ![r].property = property,
                        ![r].j = @ + 1,
                        ![r].send_requests = Append(@, node_rank)]
  /\ UNCHANGED <<mesh, op, env>>

\* line 155: the send loop is over
HaloSendsPosted(r) ==
  /\ InHalo(r, "send")
  /\ Following(r).i > task[r].nnodes
  /\ task' = [task EXCEPT ![r].pc = "wait", ![r].i = 1]
  /\ UNCHANGED <<mesh, op, env, net>>

\* lines 156-157: MPI_Wait for request i of ncomms_; a request no send wrote
\* is an uninitialised handle, on which the wait returns or ends the process
HaloWait(r) ==
  /\ InHalo(r, "wait")
  /\ task[r].i <= mesh[r].ncomms
  /\ IF task[r].i <= Len(task[r].send_requests)
     THEN /\ SendComplete(net, r, task[r].send_requests[task[r].i],
                          "property", task[r].i)
          /\ task' = [task EXCEPT ![r].i = @ + 1]
     ELSE \E pc \in {"wait", "aborted"} :
            task' = [task EXCEPT ![r].i = @ + 1, ![r].pc = pc]
  /\ UNCHANGED <<mesh, op, env, net>>

\* line 159: the waits are over
HaloWaitsDone(r) ==
  /\ InHalo(r, "wait")
  /\ task[r].i > mesh[r].ncomms
  /\ task' = [task EXCEPT ![r].pc = "recv", ![r].i = 0, ![r].x = 1]
  /\ UNCHANGED <<mesh, op, env, net>>

\* the oldest message of a channel with a tag, 0 when there is none
Matching(chan, tag) ==
  LET S == {y \in 1 .. Len(chan) : chan[y].tag = tag} IN
  IF S = {} THEN 0 ELSE Min(S)

\* what a receive finds in `property` of the sender: the value copied at the
\* send when the message was buffered; otherwise the content of the variable
\* when the data is moved, which is the variable of the iteration the sender
\* is in while it is in the send loop, and released stack memory after it
PropertyRead(msg, src) ==
  IF msg.eager THEN {msg.val}
  ELSE IF task[src].pc = "send" THEN {task[src].property}
  ELSE {0, task[src].property, msg.val}

\* lines 159-175: one MPI_Recv from a rank of the node, added to the node's
\* own value; after the last rank of the node the setter stores the sum
HaloRecv(r) ==
  /\ InHalo(r, "recv")
  /\ Following(r).i <= task[r].nnodes
  /\ LET m == mesh[r]
         nxt == Following(r)
         node == m.domain_shared_nodes[nxt.i]
         node_rank == OtherRanks(m, nxt.i, r)[nxt.x]
         y == Matching(net[<<node_rank, r>>], node.id)
     IN /\ y # 0
        /\ \E value \in PropertyRead(net[<<node_rank, r>>][y], node_rank) :
             LET property == (IF nxt.i # task[r].i THEN m.node_mass[node]
                              ELSE task[r].property) + value
             IN /\ mesh' = [mesh EXCEPT ![r].node_mass[node] =
                              IF nxt.x = Len(OtherRanks(m, nxt.i, r))
                              THEN property ELSE @]
                /\ task' = [task EXCEPT ![r].i = nxt.i, ![r].x = nxt.x,
                                        ![r].property = property]
        /\ net' = [net EXCEPT ![<<node_rank, r>>] =
                     [z \in 1 .. Len(@) - 1 |-> IF z < y THEN @[z] ELSE @[z + 1]]]
  /\ UNCHANGED <<op, env>>

\* line 176: the receive loop is over
HaloRecvsDone(r) ==
  /\ InHalo(r, "recv")
  /\ Following(r).i > task[r].nnodes
  /\ task' = [task EXCEPT ![r].pc = "return"]
  /\ UNCHANGED <<mesh, op, env, net>>

\* lines 190-193 and 199-202: at() throws for a ghost id past the buffer
GhostIdsInRange(m) ==
  \A n \in Range(m.domain_shared_nodes) : m.node_ghost_id[n] < m.nhalo_nodes

\* lines 186-193: prop_get, zero but for the shared nodes of the rank
prop_get(m) ==
  [g \in 1 .. m.nhalo_nodes |->
     LET S == {n \in Range(m.domain_shared_nodes) : m.node_ghost_id[n] = g - 1}
     IN IF S = {} THEN 0 ELSE m.node_mass[CHOOSE n \in S : TRUE]]

\* lines 186-196: the rank fills its buffer and enters MPI_Allreduce; the
\* buffer it contributes waits in the rank's own slot of the network
HaloGather(r) ==
  /\ InHalo(r, "gather")
  /\ IF GhostIdsInRange(mesh[r])
     THEN /\ net' = Post(net, r, r,
                         Message("allreduce", 0, 0, prop_get(mesh[r]), FALSE))
          /\ task' = [task EXCEPT ![r].pc = "allreduce",
                                  ![r].prop_get = prop_get(mesh[r])]
     ELSE /\ task' = [task EXCEPT ![r].pc = "aborted"]
          /\ UNCHANGED net
  /\ UNCHANGED <<mesh, op, env>>

\* lines 195-202: MPI_Allreduce returns the element-wise sum of the buffers
\* of all ranks once every rank has entered; the setter stores it
HaloReduce(r) ==
  /\ InHalo(r, "allreduce")
  /\ \A s \in DOMAIN mesh : net[<<s, s>>] # <<>>
  /\ LET prop_set == [g \in 1 .. mesh[r].nhalo_nodes |->
                        Sum([s \in DOMAIN mesh |->
                               IF g <= Len(net[<<s, s>>][1].val)
                               THEN net[<<s, s>>][1].val[g] ELSE 0])]
     IN mesh' = [mesh EXCEPT ![r].node_mass =
                   [n \in NodeObjs |->
                      IF ContainerHas(mesh[r].domain_shared_nodes, n)
                      THEN prop_set[mesh[r].node_ghost_id[n] + 1] ELSE @[n]]]
  /\ task' = [task EXCEPT ![r].pc = "return"]
  /\ UNCHANGED <<op, env, net>>

HaloReturns(r) ==
  /\ InHalo(r, "return")
  /\ task' = [task EXCEPT ![r].pc = "returned"]
  /\ op' = Call("nodal_halo_exchange", <<r>>, "void")
  /\ UNCHANGED <<mesh, env, net>>

----------------------------------------------------------------------------
\* Specification SpecHalo: the NRanks ranks of an MPI world hold the chain
\* mesh with the same owning ranks, each with its own nodal masses, have
\* found their domain shared nodes, and call nodal_halo_exchange once, in a
\* build with USE_HALO_EXCHANGE or without.

\* the mass of node n on rank r before the exchange
InitialMass(r, n) == (IF r = 0 THEN 5 ELSE 2 + r) + n.id

InitHalo ==
  \E ranks \in [CellIds -> Ranks], use_halo_exchange \in BOOLEAN :
    /\ mesh = [r \in Ranks |->
                 [find_domain_shared_nodes(ChainMesh(ranks), r, use_halo_exchange)
                    EXCEPT !.node_mass = [n \in NodeObjs |-> InitialMass(r, n)]]]
    /\ op = Call("init", <<>>, "void")
    /\ env = [mpi_size |-> NRanks, use_halo_exchange |-> use_halo_exchange,
              decompositions |-> 0]
    /\ task = [r \in Ranks |-> Idle]
    /\ net = NoMessages(Ranks)

NextHalo ==
  \/ \E r \in DOMAIN mesh : BeginHalo(r)
  \/ \E r \in DOMAIN mesh : HaloSend(r)
  \/ \E r \in DOMAIN mesh : HaloSendsPosted(r)
  \/ \E r \in DOMAIN mesh : HaloWait(r)
  \/ \E r \in DOMAIN mesh : HaloWaitsDone(r)
  \/ \E r \in DOMAIN mesh : HaloRecv(r)
  \/ \E r \in DOMAIN mesh : HaloRecvsDone(r)
  \/ \E r \in DOMAIN mesh : HaloGather(r)
  \/ \E r \in DOMAIN mesh : HaloReduce(r)
  \/ \E r \in DOMAIN mesh : HaloReturns(r)

SpecHalo == InitHalo /\ [][NextHalo]_vars

\* C7: when every rank has returned from nodal_halo_exchange, the mass the
\* setter stored for a domain shared node, on every rank that owns the node,
\* is the sum over the ranks that own the node of the mass the getter read
\* there before the exchange.
C7_HaloExchangeSums ==
  AllReturned =>
    \A r \in DOMAIN mesh : \A n \in Range(mesh[r].domain_shared_nodes) :
      mesh[r].node_mass[n] =
        Sum([s \in mesh[r].node_mpi_ranks[n] |-> InitialMass(s, n)])

----------------------------------------------------------------------------
\* Parallel iteration (mesh.tcc 68-116, 276-287, 782-823)

\* the longest collection the callers of SpecIterate build
IterLen == 3

\* the number of particle sets the callers of SpecIterate create
NSets == 1

\* unsigned is narrower than mpm::Index (32 bits against 64); the model keeps
\* the narrowing with a width of UnsignedBits bits
UnsignedBits == 2

\* tbb::blocked_range<int>(begin, end, grainsize) under simple_partitioner:
\* a range is halved while grainsize < size, the ranges that are left run the
\* loop body; nothing runs for an empty range
RECURSIVE Blocks(_, _, _)
Blocks(begin, end, grainsize) ==
  IF end <= begin THEN {}
  ELSE IF grainsize < end - begin
  THEN LET middle == begin + (end - begin) \div 2 IN
       Blocks(begin, middle, grainsize) \cup Blocks(middle, end, grainsize)
  ELSE {[begin |-> begin, end |-> end]}

FirstElement(container, i) == container[1]

\* nodes_[i], cells_[i], particles_[i], active_nodes_[i], set[i]
ElementAt(container, i) == container[i + 1]

no_particles(set_id) == FALSE

\* line 799: set_id == -1
all_particles(set_id) == set_id = -1

\* line 817: unsigned id = set[i]
unsigned_id(index) == index % (2 ^ UnsignedBits)

\* Node::assign_status
assign_status(m, node, status) ==
  Outcome([m EXCEPT !.node_status = [@ EXCEPT ![node] = status]], "void")

\* lines 98-101: Container::add checks for duplicates by default
RECURSIVE ActiveFrom(_, _)
ActiveFrom(m, i) ==
  IF i > Len(m.nodes) THEN m
  ELSE ActiveFrom([m EXCEPT !.active_nodes =
                     IF m.node_status[m.nodes[i]]
                     THEN ContainerAdd(@, m.nodes[i], TRUE) ELSE @], i + 1)

find_active_nodes(m) ==
  Outcome(ActiveFrom([m EXCEPT !.active_nodes = <<>>], 1), "void")

\* lines 1366-1378: the status is that of the last insertion, an id that is
\* already a key keeps its set
RECURSIVE InsertSets(_, _, _, _)
InsertSets(m, particle_sets, order, status) ==
  IF order = <<>> THEN Outcome(m, Bool(status))
  ELSE LET id == Head(order) IN
       InsertSets([m EXCEPT !.particle_sets = MapInsert(@, id, particle_sets[id])],
                  particle_sets, Tail(order), ~MapHas(m.particle_sets, id))

create_particle_sets(m, particle_sets, check_dups) ==
  {InsertSets(m, particle_sets, order, FALSE) : order \in Orders(DOMAIN particle_sets)}

\* the locals of a parallel_for in progress: the ranges still to run (begin
\* is the loop variable i), the collection, and the elements the operator was
\* applied to so far
IterateTask(name, arg, elements, grainsize) ==
  [name |-> name, pc |-> "running", todo |-> Blocks(0, Len(elements), grainsize),
   next |-> <<>>, arg |-> arg, elements |-> elements, applied |-> <<>>]

\* the body of the loops: oper(container[i]); lines 817-819 for a set
LoopBody(m, t, i) ==
  IF t.name = "iterate_over_particle_set" /\ ~all_particles(t.arg[1])
  THEN LET id == unsigned_id(ElementAt(t.elements, i)) IN
       IF MapHas(m.map_particles, id)
       THEN Append(t.applied, m.map_particles[id]) ELSE t.applied
  ELSE Append(t.applied, ElementAt(t.elements, i))

----------------------------------------------------------------------------
\* SpecIterate: one rank builds collections and particle sets and iterates

SetIds == 0 .. NSets - 1

\* the set ids handed to iterate_over_particle_set: NSets is never a set
SetIdArgs == {-1} \cup SetIds \cup {NSets}

\* the ids the callers list in a set: those of their particles and one that
\* does not fit an unsigned
SetPids == PIds \cup {2 ^ UnsignedBits}

SetPidLists ==
  {<<>>} \cup {<<a>> : a \in SetPids} \cup {<<a, b>> : a, b \in SetPids}

SetInputs == UNION {[S -> SetPidLists] : S \in SUBSET SetIds}

\* the grain sizes of SpecIterate: the member's value and two that split the
\* collections of IterLen elements
GrainSizes == {1, 2, tbb_grain_size_}

InitIterate ==
  /\ \E grainsize \in GrainSizes :
       mesh = [r \in {SpecRank} |->
                 [EmptyMesh EXCEPT
                    !.p_coord = [p \in ParticleObjs |-> SpecCoord(p)],
                    !.tbb_grain_size = grainsize]]
  /\ op = Call("init", <<>>, "void")
  /\ env = NoMPI
  /\ task = [r \in {SpecRank} |-> Idle]
  /\ net = NoMessages({SpecRank})

IterRoom(m, c) ==
  /\ Len(c) < IterLen
  /\ Len(m.nodes) + Len(m.cells) + Len(m.particles) < IterLen

AssignStatus(r) ==
  \E i \in 1 .. Len(mesh[r].nodes), status \in BOOLEAN :
    Returns(r, assign_status(mesh[r], mesh[r].nodes[i], status),
               "assign_status", <<mesh[r].nodes[i], status>>)

FindActiveNodes(r) ==
  Returns(r, find_active_nodes(mesh[r]), "find_active_nodes", <<>>)

CreateParticleSets(r) ==
  \E particle_sets \in SetInputs, check_dups \in BOOLEAN :
    \E o \in create_particle_sets(mesh[r], particle_sets, check_dups) :
      Returns(r, o, "create_particle_sets", <<particle_sets, check_dups>>)

BeginIterate(r, name, arg, elements) ==
  /\ task[r] = Idle
  /\ task' = [task EXCEPT ![r] =
                IterateTask(name, arg, elements, mesh[r].tbb_grain_size)]
  /\ UNCHANGED <<mesh, op, env, net>>

IterateOverNodes(r) ==
  BeginIterate(r, "iterate_over_nodes", <<>>, mesh[r].nodes)

IterateOverActiveNodes(r) ==
  BeginIterate(r, "iterate_over_active_nodes", <<>>, mesh[r].active_nodes)

IterateOverCells(r) ==
  BeginIterate(r, "iterate_over_cells", <<>>, mesh[r].cells)

IterateOverParticles(r) ==
  BeginIterate(r, "iterate_over_particles", <<>>, mesh[r].particles)

\* line 811: particle_sets_.at(set_id) throws std::out_of_range for an id
\* that is no key, and nothing in the function catches it
IterateOverParticleSet(r) ==
  \E set_id \in SetIdArgs :
    IF all_particles(set_id)
    THEN BeginIterate(r, "iterate_over_particle_set", <<set_id>>, mesh[r].particles)
    ELSE IF MapHas(mesh[r].particle_sets, set_id)
    THEN BeginIterate(r, "iterate_over_particle_set", <<set_id>>,
                      mesh[r].particle_sets[set_id])
    ELSE /\ task[r] = Idle
         /\ Returns(r, Outcome(mesh[r], "throws"),
                       "iterate_over_particle_set", <<set_id>>)

\* one pass of the loop body in one of the ranges: the ranges run in any
\* order and interleaving
IterateStep(r) ==
  /\ task[r].pc = "running"
  /\ \E range \in task[r].todo :
       LET i == range.begin
           rest == task[r].todo \ {range}
           left == IF i + 1 = range.end THEN rest
                   ELSE rest \cup {[range EXCEPT !.begin = i + 1]}
       IN task' = [task EXCEPT ![r] =
                     [@ EXCEPT !.applied = LoopBody(mesh[r], task[r], i),
                               !.todo = left]]
  /\ UNCHANGED <<mesh, op, env, net>>

IterateReturns(r) ==
  /\ task[r].pc = "running"
  /\ task[r].todo = {}
  /\ op' = CallOut(task[r].name, task[r].arg, "void", task[r].applied)
  /\ task' = [task EXCEPT ![r] = Idle]
  /\ UNCHANGED <<mesh, env, net>>

NextIterate ==
  \/ task[SpecRank] = Idle /\ IterRoom(mesh[SpecRank], mesh[SpecRank].nodes)
       /\ AddNode(SpecRank)
  \/ task[SpecRank] = Idle /\ IterRoom(mesh[SpecRank], mesh[SpecRank].cells)
       /\ AddCell(SpecRank)
  \/ task[SpecRank] = Idle /\ IterRoom(mesh[SpecRank], mesh[SpecRank].particles)
       /\ AddParticle(SpecRank)
  \/ task[SpecRank] = Idle /\ AssignStatus(SpecRank)
  \/ task[SpecRank] = Idle /\ FindActiveNodes(SpecRank)
  \/ IterateOverNodes(SpecRank)
  \/ IterateOverActiveNodes(SpecRank)
  \/ IterateOverCells(SpecRank)
  \/ IterateOverParticles(SpecRank)
  \/ IterateStep(SpecRank)
  \/ IterateReturns(SpecRank)

SpecIterate == InitIterate /\ [][NextIterate]_vars

\* SpecIterateSet: one rank adds and removes particles, creates particle sets
\* and iterates over the particles and over the sets
NextIterateSet ==
  \/ task[SpecRank] = Idle /\ Len(mesh[SpecRank].particles) < MaxLen
       /\ AddParticle(SpecRank)
  \/ task[SpecRank] = Idle /\ RemoveParticle(SpecRank)
  \/ task[SpecRank] = Idle /\ CreateParticleSets(SpecRank)
  \/ IterateOverParticles(SpecRank)
  \/ IterateOverParticleSet(SpecRank)
  \/ IterateStep(SpecRank)
  \/ IterateReturns(SpecRank)

SpecIterateSet == InitIterate /\ [][NextIterateSet]_vars

\* how many times e is in the sequence s
Occurrences(s, e) == Cardinality({i \in 1 .. Len(s) : s[i] = e})

\* s and t hold the same elements the same number of times
SameElements(s, t) ==
  \A e \in Range(s) \cup Range(t) : Occurrences(s, e) = Occurrences(t, e)

\* the collection a returned iteration ran over
Collection(m, name) ==
  CASE name = "iterate_over_nodes" -> m.nodes
    [] name = "iterate_over_active_nodes" -> m.active_nodes
    [] name = "iterate_over_cells" -> m.cells
    [] name = "iterate_over_particles" -> m.particles

\* C11: when iterate_over_particle_set(-1, op) returns it has applied op to
\* the elements of the particle container, the particles iterate_over_particles
\* visits, each as often as the container holds it, and no exception left it
C11_AllParticlesSetVisitsContainer ==
  (op.name = "iterate_over_particle_set" /\ op.arg = <<-1>>)
    => /\ op.ret = "void"
       /\ SameElements(op.out, mesh[SpecRank].particles)

\* a particle was removed, a set exists, and the call with -1 visited the two
\* particles left in another order than the container's
C11_Witness ==
  /\ op.name = "iterate_over_particle_set"
  /\ op.arg = <<-1>>
  /\ op.ret = "void"
  /\ MapHas(mesh[SpecRank].particle_sets, 0)
  /\ Len(op.out) = 2
  /\ op.out # mesh[SpecRank].particles
  /\ \E id \in PIds :
       /\ MapHas(mesh[SpecRank].particles_cell_ids, id)
       /\ ~MapHas(mesh[SpecRank].map_particles, id)

\* the particles the map holds for the ids of a set, in the set's order
SetVisits(m, set) ==
  LET present == SelectSeq(set, LAMBDA id : MapHas(m.map_particles, id)) IN
  [i \in 1 .. Len(present) |-> m.map_particles[present[i]]]

\* C12: when iterate_over_particle_set returns for the id of an existing set
\* it has applied the operator to the particles the map holds for the ids of
\* the set, once per occurrence of the id in the set, to nothing else, and no
\* exception left it
C12_SetVisitsIdsInMap ==
  (/\ op.name = "iterate_over_particle_set"
   /\ op.arg # <<-1>>
   /\ MapHas(mesh[SpecRank].particle_sets, op.arg[1]))
    => /\ op.ret = "void"
       /\ SameElements(op.out,
                       SetVisits(mesh[SpecRank], mesh[SpecRank].particle_sets[op.arg[1]]))

IterateOverNames ==
  {"iterate_over_nodes", "iterate_over_active_nodes", "iterate_over_cells",
   "iterate_over_particles"}

\* C13: when iterate_over_nodes, iterate_over_active_nodes,
\* iterate_over_cells or iterate_over_particles returns, the operator has been
\* applied to every element of the collection exactly once (an object the
\* collection holds twice is visited twice), whatever the size of the
\* collection, the grain size and the interleaving of the blocks
C13_IterateVisitsEachElementOnce ==
  op.name \in IterateOverNames
    => /\ op.ret = "void"
       /\ Len(op.out) = Len(Collection(mesh[SpecRank], op.name))
       /\ SameElements(op.out, Collection(mesh[SpecRank], op.name))

\* three nodes split into a block of one and a block of two (grain size 2)
\* were visited in another order than the container's
C13_Witness ==
  /\ op.name = "iterate_over_nodes"
  /\ mesh[SpecRank].tbb_grain_size = 2
  /\ Len(mesh[SpecRank].nodes) = 3
  /\ Cardinality(Range(mesh[SpecRank].nodes)) > 1
  /\ Len(op.out) = 3
  /\ op.out # mesh[SpecRank].nodes

----------------------------------------------------------------------------
\* Particle velocity constraints and tractions (mesh.tcc 957-1034)

\* the template parameter of Mesh<Tdim>: the chain is one-dimensional
Tdim == 1

\* the constraints and tractions the callers of SpecConstraints create
MaxConstraints == 2

\* mpm::VelocityConstraint(setid, dir, velocity)
VelocityConstraint(setid, dir, velocity) ==
  [setid |-> setid, dir |-> dir, velocity |-> velocity]

\* mpm::Traction(setid, mfunction, dir, traction); mfunction is constant 1
Traction(setid, dir, traction) ==
  [setid |-> setid, dir |-> dir, traction |-> traction]

any_direction(dir) == TRUE

\* line 1005: constraint->dir() < Tdim
valid_direction(dir) == dir < Tdim

\* lines 1003-1011: both throws are caught at 1013 and become status false
create_particle_velocity_constraint(m, set_id, constraint) ==
  IF set_id = -1 \/ MapHas(m.particle_sets, set_id)
  THEN IF valid_direction(constraint.dir)
       THEN Outcome([m EXCEPT !.particle_velocity_constraints = Append(@, constraint)],
                    "true")
       ELSE Outcome(m, "false")
  ELSE Outcome(m, "false")

\* lines 964-969
create_particles_tractions(m, set_id, dir, traction) ==
  IF set_id = -1 \/ MapHas(m.particle_sets, set_id)
  THEN Outcome([m EXCEPT !.particle_tractions = Append(@, Traction(set_id, dir, traction))],
               "true")
  ELSE Outcome(m, "false")

\* lines 797-822 as one step: the elements the operator is applied to, in
\* the order of the collection, or the exception of particle_sets_.at
iterate_over_particle_set(m, set_id) ==
  IF all_particles(set_id) THEN [ret |-> "void", applied |-> m.particles]
  ELSE IF MapHas(m.particle_sets, set_id)
  THEN LET set == m.particle_sets[set_id]
           ids == [i \in 1 .. Len(set) |-> unsigned_id(set[i])]
           present == SelectSeq(ids, LAMBDA id : MapHas(m.map_particles, id))
       IN [ret |-> "void",
           applied |-> [i \in 1 .. Len(present) |-> m.map_particles[present[i]]]]
  ELSE [ret |-> "throws", applied |-> <<>>]

\* ParticleBase::apply_particle_velocity_constraints(dir, velocity)
particle_apply_velocity(m, applied, velocity) ==
  [m EXCEPT !.p_velocity = [p \in DOMAIN @ |->
                              IF p \in Range(applied) THEN velocity ELSE @[p]]]

\* ParticleBase::assign_traction(dir, traction)
particle_assign_traction(m, applied, traction) ==
  [m EXCEPT !.p_traction = [p \in DOMAIN @ |->
                              IF p \in Range(applied) THEN traction ELSE @[p]]]

\* lines 1023-1033 from constraint i on; visits[j] lists the particles
\* constraint j was applied to
RECURSIVE ApplyVelocityFrom(_, _, _)
ApplyVelocityFrom(m, i, visits) ==
  IF i > Len(m.particle_velocity_constraints)
  THEN [m |-> m, ret |-> "void", visits |-> visits]
  ELSE LET pvelocity == m.particle_velocity_constraints[i]
           it == iterate_over_particle_set(m, pvelocity.setid) IN
       IF it.ret = "throws" THEN [m |-> m, ret |-> "throws", visits |-> visits]
       ELSE ApplyVelocityFrom(particle_apply_velocity(m, it.applied, pvelocity.velocity),
                              i + 1, Append(visits, it.applied))

apply_particle_velocity_constraints(m) == ApplyVelocityFrom(m, 1, <<>>)

\* lines 982-989 from traction i on
RECURSIVE ApplyTractionFrom(_, _, _)
ApplyTractionFrom(m, i, visits) ==
  IF i > Len(m.particle_tractions)
  THEN [m |-> m, ret |-> "void", visits |-> visits]
  ELSE LET ptraction == m.particle_tractions[i]
           it == iterate_over_particle_set(m, ptraction.setid) IN
       IF it.ret = "throws" THEN [m |-> m, ret |-> "throws", visits |-> visits]
       ELSE ApplyTractionFrom(particle_assign_traction(m, it.applied, ptraction.traction),
                              i + 1, Append(visits, it.applied))

\* lines 990-993: map_traction_force adds to the forces of the nodes, which
\* the model does not hold
apply_traction_on_particles(m) == ApplyTractionFrom(m, 1, <<>>)

----------------------------------------------------------------------------
\* SpecConstraints: one rank adds and removes particles, creates velocity
\* constraints and tractions for every particle or for a set, and applies
\* them

Directions == 0 .. Tdim

\* the mesh has the particle set 0, which lists the particle id 0
InitConstraints ==
  /\ \E sets \in {[id \in {0} |-> <<0>>]} :
       mesh = [r \in {SpecRank} |->
                 [EmptyMesh EXCEPT
                    !.p_coord = [p \in ParticleObjs |-> SpecCoord(p)],
                    !.particle_sets = sets]]
  /\ op = Call("init", <<>>, "void")
  /\ env = NoMPI
  /\ task = [r \in {SpecRank} |-> Idle]
  /\ net = NoMessages({SpecRank})

ConstraintRoom(m) ==
  Len(m.particle_velocity_constraints) + Len(m.particle_tractions) < MaxConstraints

\* what the rank keeps of the creation that returned last: the call, its
\* set id, its status and the particle container at that time
Created(name, set_id, ret, m) ==
  [name |-> name, pc |-> "returned", todo |-> {}, next |-> <<>>,
   set_id |-> set_id, ret |-> ret, particles |-> m.particles]

\* the callers build the constraint for the set id they pass
CreateParticleVelocityConstraint(r) ==
  \E set_id \in SetIdArgs, dir \in Directions :
    LET constraint == VelocityConstraint(set_id, dir, 1)
        o == create_particle_velocity_constraint(mesh[r], set_id, constraint)
    IN /\ mesh' = [mesh EXCEPT ![r] = o.m]
       /\ op' = Call("create_particle_velocity_constraint", <<set_id, constraint>>, o.ret)
       /\ task' = [task EXCEPT ![r] =
                     Created("create_particle_velocity_constraint", set_id, o.ret,
                             mesh[r])]
       /\ UNCHANGED <<env, net>>

CreateParticlesTractions(r) ==
  \E set_id \in SetIdArgs :
    LET o == create_particles_tractions(mesh[r], set_id, 0, 1)
    IN /\ mesh' = [mesh EXCEPT ![r] = o.m]
       /\ op' = Call("create_particles_tractions", <<set_id, 0, 1>>, o.ret)
       /\ task' = [task EXCEPT ![r] =
                     Created("create_particles_tractions", set_id, o.ret, mesh[r])]
       /\ UNCHANGED <<env, net>>

ApplyParticleVelocityConstraints(r) ==
  LET o == apply_particle_velocity_constraints(mesh[r]) IN
  /\ mesh' = [mesh EXCEPT ![r] = o.m]
  /\ op' = CallOut("apply_particle_velocity_constraints", <<>>, o.ret, o.visits)
  /\ UNCHANGED <<env, task, net>>

ApplyTractionOnParticles(r) ==
  LET o == apply_traction_on_particles(mesh[r]) IN
  /\ mesh' = [mesh EXCEPT ![r] = o.m]
  /\ op' = CallOut("apply_traction_on_particles", <<>>, o.ret, o.visits)
  /\ UNCHANGED <<env, task, net>>

NextConstraints ==
  \/ Len(mesh[SpecRank].particles) < MaxLen /\ AddParticle(SpecRank)
  \/ RemoveParticle(SpecRank)
  \/ ConstraintRoom(mesh[SpecRank]) /\ CreateParticleVelocityConstraint(SpecRank)
  \/ ConstraintRoom(mesh[SpecRank]) /\ CreateParticlesTractions(SpecRank)
  \/ ApplyParticleVelocityConstraints(SpecRank)
  \/ ApplyTractionOnParticles(SpecRank)

SpecConstraints == InitConstraints /\ [][NextConstraints]_vars

\* C14: a step of create_particle_velocity_constraint returns false and
\* leaves the list of particle velocity constraints as it was when the
\* direction is Tdim or more or the set id is neither -1 nor the id of a
\* particle set; otherwise it returns true and the list is the old one with
\* that constraint appended
C14_VelocityConstraintCreation ==
  [][op'.name = "create_particle_velocity_constraint" /\ op' # op
       => LET set_id == op'.arg[1]
              constraint == op'.arg[2]
              before == mesh[SpecRank].particle_velocity_constraints
              after == mesh'[SpecRank].particle_velocity_constraints
          IN IF \/ constraint.dir >= Tdim
                \/ (set_id # -1 /\ ~MapHas(mesh[SpecRank].particle_sets, set_id))
             THEN op'.ret = "false" /\ after = before
             ELSE op'.ret = "true" /\ after = Append(before, constraint)]_vars

\* a constraint of direction Tdim was refused after another one was accepted
C14_Witness ==
  /\ op.name = "create_particle_velocity_constraint"
  /\ op.arg[2].dir = Tdim
  /\ op.ret = "false"
  /\ Len(mesh[SpecRank].particle_velocity_constraints) = 1

ApplyNames == {"apply_particle_velocity_constraints", "apply_traction_on_particles"}

\* the list an apply call walks
Applied(m, name) ==
  IF name = "apply_particle_velocity_constraints"
  THEN m.particle_velocity_constraints ELSE m.particle_tractions

\* C15: when apply_particle_velocity_constraints or
\* apply_traction_on_particles returns, every constraint or traction of set
\* id -1 has been applied to the particles the container holds at that call,
\* each as often as the container holds it, and to no other particle
C15_AllParticlesLateBound ==
  op.name \in ApplyNames
    => /\ op.ret = "void"
       /\ Len(op.out) = Len(Applied(mesh[SpecRank], op.name))
       /\ \A i \in 1 .. Len(op.out) :
            Applied(mesh[SpecRank], op.name)[i].setid = -1
              => SameElements(op.out[i], mesh[SpecRank].particles)

\* the velocity constraint created last has set id -1; since then one
\* particle left the mesh and another one came, and the apply call reached
\* the newcomer
C15_Witness ==
  /\ op.name = "apply_particle_velocity_constraints"
  /\ task[SpecRank].name = "create_particle_velocity_constraint"
  /\ task[SpecRank].ret = "true"
  /\ task[SpecRank].set_id = -1
  /\ Range(task[SpecRank].particles) \ Range(mesh[SpecRank].particles) # {}
  /\ Range(mesh[SpecRank].particles) \ Range(task[SpecRank].particles) # {}
  /\ Range(op.out[Len(op.out)]) = Range(mesh[SpecRank].particles)

\* C16: no call of a Mesh member ends with an exception leaving it: every
\* call that returns hands a status or nothing to its caller
C16_NoExceptionLeavesMesh == op.ret # "throws"

\* what claim C17 lists: the particle container and map, particles_cell_ids
\* and the particle-id list of every cell
ParticleRegistry(m) ==
  <<m.particles, m.map_particles, m.particles_cell_ids, m.cell_particles>>

\* C17: a step of add_particle that returns false leaves the particle
\* container, the particle map, particles_cell_ids and the particle-id list
\* of every cell as they were
C17_FailedAddParticleNoEffect ==
  [][(op'.name = "add_particle" /\ op' # op /\ op'.ret = "false")
       => ParticleRegistry(mesh'[SpecRank]) = ParticleRegistry(mesh[SpecRank])]_vars

----------------------------------------------------------------------------
\* Bulk creation (mesh.tcc 14-47, 208-255, 363-456)

\* the longest list handed to create_nodes, create_cells, create_particles
CreateLen == 2

\* Factory::create / std::make_shared: an object no container or map holds;
\* k = 0 when the model has no such object left for the id
Fresh(container, map, id, objs) ==
  LET used == {container[i].k : i \in {j \in 1 .. Len(container) : container[j].id = id}}
                \cup (IF MapHas(map, id) THEN {map[id].k} ELSE {})
      free == (1 .. objs) \ used
  IN [id |-> id, k |-> IF free = {} THEN 0 ELSE Min(free)]

same_id(gid) == gid

\* lines 34 and 244: ++gnid, ++gcid
next_id(gid) == gid + 1

thrown(m) == Outcome(m, "throws")

\* lines 41-44, 250-253, 413-416, 451-454: the exception is logged and the
\* status becomes false
caught(m) == Outcome(m, "false")

\* lines 26-37
RECURSIVE CreateNodesFrom(_, _, _, _, _)
CreateNodesFrom(m, gnid, coordinates, i, check_dups) ==
  IF i > Len(coordinates) THEN Outcome(m, "true")
  ELSE LET node == Fresh(m.nodes, m.map_nodes, gnid, NObjs)
           insert_status == add_node(m, node, check_dups)
       IN IF insert_status.ret = "true"
          THEN CreateNodesFrom(insert_status.m, next_id(gnid), coordinates, i + 1,
                               check_dups)
          ELSE caught(insert_status.m)

\* line 23: an empty list throws inside the try block
create_nodes(m, gnid, coordinates, check_dups) ==
  IF coordinates = <<>> THEN caught(m)
  ELSE CreateNodesFrom(m, gnid, coordinates, 1, check_dups)

\* lines 229-234: Map::operator[] throws for an id that is no key; otherwise
\* the nodes are attached in the order of the list
attach_nodes(m, cell, nodes) ==
  IF \E j \in 1 .. Len(nodes) : ~MapHas(m.map_nodes, nodes[j]) THEN thrown(m)
  ELSE Outcome([m EXCEPT !.cell_nodes =
                  [@ EXCEPT ![cell] = [j \in 1 .. Len(nodes) |-> m.map_nodes[nodes[j]]]]],
               "void")

\* line 237: cell->nnodes() == nodes.size()
nnodes_match(m, cell, nodes) == Len(m.cell_nodes[cell]) = Len(nodes)

\* lines 221-247: a cell object the model has no room for is attached to
\* nothing and can only be refused
RECURSIVE CreateCellsFrom(_, _, _, _, _)
CreateCellsFrom(m, gcid, cells, i, check_dups) ==
  IF i > Len(cells) THEN Outcome(m, "true")
  ELSE LET cell == Fresh(m.cells, m.map_cells, gcid, 1)
           attached == IF cell \in CellObjs THEN attach_nodes(m, cell, cells[i])
                       ELSE IF \E j \in 1 .. Len(cells[i]) : ~MapHas(m.map_nodes, cells[i][j])
                       THEN thrown(m) ELSE Outcome(m, "void")
       IN IF attached.ret = "throws" THEN caught(m)
          ELSE IF cell \in CellObjs /\ ~nnodes_match(attached.m, cell, cells[i])
          THEN caught(m)
          ELSE LET insert_cell == add_cell(attached.m, cell, check_dups) IN
               IF insert_cell.ret = "true"
               THEN CreateCellsFrom(insert_cell.m, next_id(gcid), cells, i + 1, check_dups)
               ELSE caught(m)

\* line 217: an empty list throws inside the try block
create_cells(m, gcid, cells, check_dups) ==
  IF cells = <<>> THEN caught(m)
  ELSE CreateCellsFrom(m, gcid, cells, 1, check_dups)

\* the particle the factory builds for an id at some coordinates
NewParticle(m, pid, coordinates) ==
  LET particle == Fresh(m.particles, m.map_particles, pid, NObjs) IN
  [particle |-> particle,
   m |-> IF particle \in DOMAIN m.p_coord
         THEN [m EXCEPT !.p_coord = [@ EXCEPT ![particle] = coordinates],
                        !.p_cell = [@ EXCEPT ![particle] = NULL],
                        !.p_cell_id = [@ EXCEPT ![particle] = INVALID],
                        !.p_material = [@ EXCEPT ![particle] = INVALID]]
         ELSE m]

\* ParticleBase::assign_material
assign_material(m, particle, material_id) ==
  [m EXCEPT !.p_material = [@ EXCEPT ![particle] = material_id]]

\* lines 434-449: the outcomes of the loop from coordinate i on
RECURSIVE CreateParticlesFrom(_, _, _, _, _)
CreateParticlesFrom(m, material_id, coordinates, i, check_dups) ==
  IF i > Len(coordinates) THEN {Outcome(m, "true")}
  ELSE LET pid == Len(m.particles)
           new == NewParticle(m, pid, coordinates[i])
       IN IF new.particle \notin DOMAIN m.p_coord
          THEN \* a particle the model has no room for: InModel ends the branch
               {Outcome([m EXCEPT !.particles = Append(@, new.particle)], "true")}
          ELSE UNION {IF insert_status.ret = "true"
                      THEN CreateParticlesFrom(
                             assign_material(insert_status.m,
                                             insert_status.m.map_particles[pid],
                                             material_id),
                             material_id, coordinates, i + 1, check_dups)
                      ELSE {caught(insert_status.m)} :
                      insert_status \in add_particle(new.m, new.particle, check_dups)}

any_material(m, material_id) == TRUE

\* lines 375 and 428: materials_.at(material_id) finds the material
registered(m, material_id) == material_id \in m.materials

\* lines 428-432: materials_.at throws for an id that is no key, an empty
\* list throws, both inside the try block
create_particles(m, material_id, coordinates, check_dups) ==
  IF ~registered(m, material_id) THEN {caught(m)}
  ELSE IF coordinates = <<>> THEN {caught(m)}
  ELSE CreateParticlesFrom(m, material_id, coordinates, 1, check_dups)

\* Cell::generate_points for one quadrature point: the centre of the cell
generate_points(cell) == <<Centre(cell.id)>>

\* lines 380-403 from cell i of the set on; checks is false
RECURSIVE GenerateFrom(_, _, _, _)
GenerateFrom(m, material_id, cset, i) ==
  IF i > Len(cset) THEN {Outcome(m, "true")}
  ELSE LET pid == Len(m.particles)
           new == NewParticle(m, pid, generate_points(cset[i])[1])
       IN IF new.particle \notin DOMAIN m.p_coord
          THEN {Outcome([m EXCEPT !.particles = Append(@, new.particle)], "true")}
          ELSE UNION {IF status.ret = "true"
                      THEN GenerateFrom(
                             assign_material(
                               particle_assign_cell(status.m, status.m.map_particles[pid],
                                                    cset[i]),
                               status.m.map_particles[pid], material_id),
                             material_id, cset, i + 1)
                      ELSE {caught(status.m)} :
                      status \in add_particle(new.m, new.particle, FALSE)}

\* lines 371-378 and 404-412
generate_material_points(m, material_id, cset_id) ==
  IF Len(m.cells) > 0
  THEN IF ~registered(m, material_id) THEN {caught(m)}
       ELSE IF cset_id # -1 /\ ~MapHas(m.cell_sets, cset_id) THEN {caught(m)}
       ELSE LET cset == IF cset_id = -1 THEN m.cells ELSE m.cell_sets[cset_id] IN
            {IF o.ret = "true" /\ Len(o.m.particles) = Len(m.particles)
             THEN caught(o.m) ELSE o : o \in GenerateFrom(m, material_id, cset, 1)}
  ELSE {caught(m)}

----------------------------------------------------------------------------
\* SpecCreate: one rank builds the first MaxLen cells of the chain with
\* create_nodes and create_cells and fills them with create_particles and
\* generate_material_points; the material 0 is registered, no cell set exists

\* every object of the mesh is one the model holds
InModel(m) ==
  /\ Range(m.nodes) \subseteq NodeObjs
  /\ Range(m.cells) \subseteq CellObjs
  /\ Range(m.particles) \subseteq DOMAIN m.p_coord
  /\ Len(m.nodes) <= MaxLen + 1
  /\ Len(m.cells) <= MaxLen
  /\ Len(m.particles) <= MaxLen

InitCreate ==
  /\ mesh = [r \in {SpecRank} |-> [EmptyMesh EXCEPT !.materials = {0}]]
  /\ op = Call("init", <<>>, "void")
  /\ env = NoMPI
  /\ task = [r \in {SpecRank} |-> Idle]
  /\ net = NoMessages({SpecRank})

\* the coordinates of n nodes of the chain from node gnid on
NodeCoordinates(gnid, n) == [i \in 1 .. n |-> 2 * (gnid + i - 1)]

\* the node lists of n cells of the chain from cell gcid on
CellNodeLists(gcid, n) == [i \in 1 .. n |-> nodes_id([id |-> gcid + i - 1, k |-> 1])]

\* the coordinates handed to create_particles: inside cell 0 or outside
ParticleCoordinates ==
  {<<>>} \cup {<<x>> : x \in {1, Outside}} \cup {<<x, y>> : x, y \in {1, Outside}}

MaterialIds == {0, 1}

\* what the rank keeps of the create_nodes or create_cells call that returned
\* last: the container as the call found it
Built(name, container) ==
  [name |-> name, pc |-> "returned", todo |-> {}, next |-> <<>>, before |-> container]

CreateNodes(r) ==
  \E gnid \in 0 .. MaxLen, n \in 0 .. CreateLen, check_dups \in BOOLEAN :
    LET o == create_nodes(mesh[r], gnid, NodeCoordinates(gnid, n), check_dups) IN
    /\ gnid + n - 1 <= MaxLen
    /\ InModel(o.m)
    /\ mesh' = [mesh EXCEPT ![r] = o.m]
    /\ op' = Call("create_nodes", <<gnid, NodeCoordinates(gnid, n), check_dups>>, o.ret)
    /\ task' = [task EXCEPT ![r] = Built("create_nodes", mesh[r].nodes)]
    /\ UNCHANGED <<env, net>>

CreateCells(r) ==
  \E gcid \in 0 .. MaxLen - 1, n \in 0 .. CreateLen, check_dups \in BOOLEAN :
    LET o == create_cells(mesh[r], gcid, CellNodeLists(gcid, n), check_dups) IN
    /\ gcid + n - 1 <= MaxLen - 1
    /\ InModel(o.m)
    /\ mesh' = [mesh EXCEPT ![r] = o.m]
    /\ op' = Call("create_cells", <<gcid, CellNodeLists(gcid, n), check_dups>>, o.ret)
    /\ task' = [task EXCEPT ![r] = Built("create_cells", mesh[r].cells)]
    /\ UNCHANGED <<env, net>>

CreateParticles(r) ==
  \E material_id \in MaterialIds, coordinates \in ParticleCoordinates,
     check_dups \in BOOLEAN :
    \E o \in create_particles(mesh[r], material_id, coordinates, check_dups) :
      /\ InModel(o.m)
      /\ Returns(r, o, "create_particles", <<material_id, coordinates, check_dups>>)

GenerateMaterialPoints(r) ==
  \E material_id \in MaterialIds, cset_id \in {-1, 0} :
    \E o \in generate_material_points(mesh[r], material_id, cset_id) :
      /\ InModel(o.m)
      /\ Returns(r, o, "generate_material_points", <<material_id, cset_id>>)

NextCreate ==
  \/ CreateNodes(SpecRank)
  \/ CreateCells(SpecRank)
  \/ CreateParticles(SpecRank)
  \/ GenerateMaterialPoints(SpecRank)

SpecCreate == InitCreate /\ [][NextCreate]_vars

\* the elements a container gained at its end
Gained(before, after) == SubSeq(after, Len(before) + 1, Len(after))

\* C18: a step of create_nodes or create_cells called with the id first and
\* a list of n elements keeps what the container and the map held, and the
\* entities it appends carry the ids first, first + 1, ... in this order, the
\* map holding exactly the old ids and these; it returns true when it appended
\* n > 0 entities and false when it appended fewer (none for the element it
\* failed at and for the later ones)
C18_BulkCreationKeepsPrefix ==
  [][(op'.name \in {"create_nodes", "create_cells"} /\ op' # op)
       => LET nodes == op'.name = "create_nodes"
              first == op'.arg[1]
              n == Len(op'.arg[2])
              before == IF nodes THEN mesh[SpecRank].nodes ELSE mesh[SpecRank].cells
              after == IF nodes THEN mesh'[SpecRank].nodes ELSE mesh'[SpecRank].cells
              map_before == IF nodes THEN mesh[SpecRank].map_nodes
                            ELSE mesh[SpecRank].map_cells
              map_after == IF nodes THEN mesh'[SpecRank].map_nodes
                           ELSE mesh'[SpecRank].map_cells
              gained == Gained(before, after)
          IN /\ Len(after) >= Len(before)
             /\ SubSeq(after, 1, Len(before)) = before
             /\ \A i \in 1 .. Len(gained) : gained[i].id = first + i - 1
             /\ DOMAIN map_after = DOMAIN map_before \cup ContainerIds(gained)
             /\ \A id \in DOMAIN map_before : map_after[id] = map_before[id]
             /\ \A id \in DOMAIN map_after \ DOMAIN map_before :
                  map_after[id] \in Range(gained)
             /\ IF op'.ret = "true" THEN n > 0 /\ Len(gained) = n
                ELSE op'.ret = "false" /\ (Len(gained) < n \/ n = 0)]_vars

\* create_nodes was called with two coordinates and the duplicate check on a
\* mesh that held the second id and not the first: it created the first node
\* and failed at the second
C18_Witness ==
  /\ op.name = "create_nodes"
  /\ Len(op.arg[2]) = 2
  /\ op.ret = "false"
  /\ task[SpecRank].name = "create_nodes"
  /\ ~ContainerHasId(task[SpecRank].before, op.arg[1])
  /\ ContainerHasId(task[SpecRank].before, op.arg[1] + 1)
  /\ Len(mesh[SpecRank].nodes) = Len(task[SpecRank].before) + 1
  /\ MapHas(mesh[SpecRank].map_nodes, op.arg[1])

\* the node, cell and particle containers and maps
Registry(m) ==
  <<m.nodes, m.map_nodes, m.cells, m.map_cells, m.particles, m.map_particles>>

\* the calls claim C19 lists, by the arguments of the call and the mesh it
\* is made on
Rejected(m, call) ==
  \/ call.name \in {"create_nodes", "create_cells"} /\ call.arg[2] = <<>>
  \/ call.name = "create_particles"
       /\ (call.arg[2] = <<>> \/ call.arg[1] \notin m.materials)
  \/ call.name = "generate_material_points"
       /\ \/ call.arg[1] \notin m.materials
          \/ (call.arg[2] # -1 /\ ~MapHas(m.cell_sets, call.arg[2]))
          \/ Len(m.cells) = 0

\* C19: a step of create_nodes, create_cells or create_particles with an
\* empty list, of create_particles or generate_material_points with a
\* material id that is not registered, or of generate_material_points with an
\* unknown cell set id or on a mesh without cells returns false and leaves
\* the node, cell and particle containers and maps as they were
C19_RejectedCreationNoEffect ==
  [][(op' # op /\ Rejected(mesh[SpecRank], op'))
       => /\ op'.ret = "false"
          /\ Registry(mesh'[SpecRank]) = Registry(mesh[SpecRank])]_vars

\* generate_material_points was refused for the unregistered material 1 on a
\* mesh that has a cell and the cell set -1 to generate in
C19_Witness ==
  /\ op.name = "generate_material_points"
  /\ op.arg = <<1, -1>>
  /\ op.ret = "false"
  /\ Len(mesh[SpecRank].cells) > 0
  /\ 1 \notin mesh[SpecRank].materials

\* C20: after a step of create_cells every cell of the container and of the
\* map has as many nodes attached as its node-id list names, the nodes the
\* list names; when the list of an element names a node id the mesh does not
\* hold, the call returns false and the container and the map gain no cell of
\* that element's id
C20_CellsHaveTheirNodes ==
  [][(op'.name = "create_cells" /\ op' # op)
       => LET first == op'.arg[1]
              cells == op'.arg[2]
              m == mesh[SpecRank]
              after == mesh'[SpecRank]
          IN /\ \A cell \in Range(after.cells) \cup Range(after.map_cells) :
                  /\ Len(after.cell_nodes[cell]) = Len(nodes_id(cell))
                  /\ \A j \in 1 .. Len(nodes_id(cell)) :
                       after.cell_nodes[cell][j].id = nodes_id(cell)[j]
             /\ \A i \in 1 .. Len(cells) :
                  (\E j \in 1 .. Len(cells[i]) : ~MapHas(m.map_nodes, cells[i][j]))
                    => /\ op'.ret = "false"
                       /\ ContainerHasId(after.cells, first + i - 1)
                            => ContainerHasId(m.cells, first + i - 1)
                       /\ MapHas(after.map_cells, first + i - 1)
                            => MapHas(m.map_cells, first + i - 1)]_vars

\* create_cells was called with two node lists, made the first cell and
\* refused the second, whose second node the mesh does not hold
C20_Witness ==
  /\ op.name = "create_cells"
  /\ Len(op.arg[2]) = 2
  /\ op.ret = "false"
  /\ task[SpecRank].name = "create_cells"
  /\ Len(mesh[SpecRank].cells) = Len(task[SpecRank].before) + 1
  /\ ~MapHas(mesh[SpecRank].map_nodes, op.arg[2][2][2])
  /\ ~ContainerHasId(mesh[SpecRank].cells, op.arg[1] + 1)
  /\ ~MapHas(mesh[SpecRank].map_cells, op.arg[1] + 1)

----------------------------------------------------------------------------
\* SpecPopulate: one rank creates, generates and removes particles in a mesh
\* of one cell; the material 0 is registered.  Every particle id has
\* NObjs objects here.  PopulateMesh(rank) is that mesh, its cell owned by
\* rank.

AllParticleObjs == [id : PIds, k : 1 .. NObjs]

\* the mesh after create_nodes and create_cells made cell 0, owned by rank
PopulateMesh(rank) ==
  LET heap == [EmptyMesh EXCEPT
                 !.materials = {0},
                 !.cell_rank = [c \in CellObjs |-> rank],
                 !.p_coord = [p \in AllParticleObjs |-> Outside],
                 !.p_cell = [p \in AllParticleObjs |-> NULL],
                 !.p_cell_id = [p \in AllParticleObjs |-> INVALID],
                 !.p_velocity = [p \in AllParticleObjs |-> 0],
                 !.p_traction = [p \in AllParticleObjs |-> 0],
                 !.p_material = [p \in AllParticleObjs |-> INVALID]]
      nodes == create_nodes(heap, 0, NodeCoordinates(0, 2), TRUE).m
  IN create_cells(nodes, 0, CellNodeLists(0, 1), TRUE).m

InitPopulate ==
  /\ mesh = [r \in {SpecRank} |-> PopulateMesh(SpecRank)]
  /\ op = Call("init", <<>>, "void")
  /\ env = NoMPI
  /\ task = [r \in {SpecRank} |-> Idle]
  /\ net = NoMessages({SpecRank})

NextPopulate ==
  \/ CreateParticles(SpecRank)
  \/ GenerateMaterialPoints(SpecRank)
  \/ RemoveParticleById(SpecRank)
  \/ RemoveParticles(SpecRank)

SpecPopulate == InitPopulate /\ [][NextPopulate]_vars

\* no two elements of the container carry the same id
DistinctIds(c) == \A i, j \in 1 .. Len(c) : c[i].id = c[j].id => i = j

\* C21: a step of create_particles or generate_material_points on a mesh
\* whose particles have pairwise distinct ids leaves a mesh whose particles
\* have pairwise distinct ids: no particle it creates receives the id of a
\* particle that is in the container
C21_CreatedParticleIdsAreNew ==
  [][(/\ op'.name \in {"create_particles", "generate_material_points"}
      /\ op' # op
      /\ DistinctIds(mesh[SpecRank].particles))
       => DistinctIds(mesh'[SpecRank].particles)]_vars

\* InOrder(after, before): after is before with some elements left out, the
\* others in the same relative order.
RECURSIVE InOrder(_, _)
InOrder(after, before) ==
  IF after = <<>> THEN TRUE
  ELSE IF before = <<>> THEN FALSE
  ELSE IF Head(after) = Head(before)
       THEN InOrder(Tail(after), Tail(before))
       ELSE InOrder(after, Tail(before))

RemovalNames ==
  {"remove_particle", "remove_particles", "remove_all_nonrank_particles"}

\* C22: a step of remove_particle, remove_particles or
\* remove_all_nonrank_particles leaves the surviving particles in the
\* container in the relative order they had before the step, which is the
\* order in which they were added.
C22_RemovalKeepsInsertionOrder ==
  [][(op'.name \in RemovalNames /\ op' # op)
       => InOrder(mesh'[SpecRank].particles, mesh[SpecRank].particles)]_vars

-----------------------------------------------------------------------------
\* Export and import of the particles (mesh.tcc 1216-1303)

\* lines 1225-1226 and 1298-1299: the records of the particles, in the order
\* of the container
particles_hdf5(m) == [i \in 1 .. Len(m.particles) |-> hdf5(m, m.particles[i])]

\* lines 1240-1248: the table of the file holds the records
write_particles_hdf5(m) == particles_hdf5(m)

\* ParticleBase::initialise_particle(record, material): the fields of the
\* record become the particle's; the id is the one the particle has in this
\* model (ReadParticlesHdf5 reads records of the same ids)
initialise_particle(m, p, particle) ==
  [m EXCEPT !.p_coord = [@ EXCEPT ![p] = particle.coordinates],
            !.p_cell_id = [@ EXCEPT ![p] = particle.cell_id],
            !.p_velocity = [@ EXCEPT ![p] = particle.velocity],
            !.p_material = [@ EXCEPT ![p] = particle.material_id]]

\* lines 1270-1271: dst_buf.reserve(nparticles) leaves size() at 0, so
\* dst_buf[i] at line 1279 is an access beyond the size: it reads the record
\* H5TBread_table stored there, or a checked build ends the process
beyond_size(m) == {Outcome(m, "aborts")}

\* lines 1278-1285: the particles of the container take the records in turn;
\* materials_.at (line 1281) throws for an id that is no key, outside any try
\* block
RECURSIVE ReadFrom(_, _, _)
ReadFrom(m, dst_buf, i) ==
  IF i > Len(m.particles) THEN {Outcome(m, "true")}
  ELSE LET particle == dst_buf[i] IN
       beyond_size(m) \cup
         (IF ~registered(m, particle.material_id) THEN {Outcome(m, "throws")}
          ELSE ReadFrom(initialise_particle(m, m.particles[i], particle),
                        dst_buf, i + 1))

\* lines 1259-1261: a file that cannot be opened throws
read_particles_hdf5(m, file) ==
  IF file = <<>> THEN {Outcome(m, "throws")}
  ELSE ReadFrom(m, file[1], 1)

\* the file a rank wrote last, <<>> when it wrote none
NoFile == [Idle EXCEPT !.name = "hdf5"] @@ [file |-> <<>>]

Written(records) == [NoFile EXCEPT !.file = <<records>>]

WriteParticlesHdf5(r) ==
  /\ task' = [task EXCEPT ![r] = Written(write_particles_hdf5(mesh[r]))]
  /\ op' = CallOut("write_particles_hdf5", <<>>, "true", particles_hdf5(mesh[r]))
  /\ UNCHANGED <<mesh, env, net>>

\* the caller imports into a container of as many particles as the file has
\* records, the i-th of the i-th record's id
ReadParticlesHdf5(r) ==
  LET file == task[r].file IN
  /\ file # <<>> =>
        /\ Len(file[1]) = Len(mesh[r].particles)
        /\ \A i \in 1 .. Len(file[1]) : file[1][i].id = mesh[r].particles[i].id
  /\ \E o \in read_particles_hdf5(mesh[r], file) :
       /\ mesh' = [mesh EXCEPT ![r] = o.m]
       /\ op' = CallOut("read_particles_hdf5", <<>>, o.ret,
                        IF file = <<>> THEN <<>> ELSE file[1])
       /\ UNCHANGED <<env, task, net>>

\* the particles the caller built: those of id 0 with the material 0, which is
\* registered, the one of id 1 without a material
ExportMesh ==
  [PopulateMesh(SpecRank) EXCEPT
     !.p_coord = [p \in ParticleObjs |-> SpecCoord(p)],
     !.p_cell = [p \in ParticleObjs |-> NULL],
     !.p_cell_id = [p \in ParticleObjs |-> INVALID],
     !.p_velocity = [p \in ParticleObjs |-> 0],
     !.p_traction = [p \in ParticleObjs |-> 0],
     !.p_material = [p \in ParticleObjs |-> IF p.id = 0 THEN 0 ELSE INVALID]]

\* SpecHdf5: one rank adds and removes particles in a mesh of one cell, exports
\* them and imports them again.
InitHdf5 ==
  /\ mesh = [r \in {SpecRank} |-> ExportMesh]
  /\ op = Call("init", <<>>, "void") /\ env = NoMPI
  /\ task = [r \in {SpecRank} |-> NoFile] /\ net = NoMessages({SpecRank})

NextHdf5 ==
  \/ Len(mesh[SpecRank].particles) < MaxLen /\ AddParticle(SpecRank)
  \/ RemoveParticles(SpecRank)
  \/ WriteParticlesHdf5(SpecRank)
  \/ ReadParticlesHdf5(SpecRank)

SpecHdf5 == InitHdf5 /\ [][NextHdf5]_vars

\* C23: a read_particles_hdf5 call on a container of as many particles as the
\* file has records, no two of one id, returns true, and afterwards the record
\* of the i-th particle of the container is the i-th record of the file, in
\* every field.
C23_ImportReproducesExport ==
  [][(/\ op'.name = "read_particles_hdf5"
      /\ task[SpecRank].file # <<>>
      /\ DistinctIds(mesh[SpecRank].particles))
       => /\ op'.ret = "true"
          /\ particles_hdf5(mesh'[SpecRank]) = task[SpecRank].file[1]]_vars

-----------------------------------------------------------------------------
\* Ghost ids (mesh.tcc 692-721): SpecGhostIds.  One process of an MPI world
\* of DomainSize ranks holds a mesh of NCells cells, a chain or a fan (every
\* cell has node 0, as the cells around a corner have, and the last two have
\* node 2 as well); a cell's owning rank changes, and the process finds its
\* domain shared nodes.
ChainNodes == [c \in CellObjs |-> <<[id |-> c.id, k |-> 1], [id |-> c.id + 1, k |-> 1]>>]

FanNodes ==
  [c \in CellObjs |-> <<[id |-> 0, k |-> 1], [id |-> Min({c.id + 1, 2}), k |-> 1]>>]

InitGhostIds ==
  \E mpi_rank \in DomainRanks, ranks \in [CellIds -> DomainRanks],
     cell_nodes \in {ChainNodes, FanNodes}, use_halo_exchange \in BOOLEAN :
    /\ mesh = [r \in {mpi_rank} |->
                 [ChainMesh(ranks) EXCEPT !.cell_nodes = cell_nodes]]
    /\ op = Call("init", <<>>, "void")
    /\ env = [mpi_size |-> DomainSize, use_halo_exchange |-> use_halo_exchange,
              decompositions |-> 0]
    /\ task = [r \in {mpi_rank} |-> Idle]
    /\ net = NoMessages({mpi_rank})

FindSharedNodes(r) ==
  /\ mesh' = [mesh EXCEPT ![r] =
                find_domain_shared_nodes(@, r, env.use_halo_exchange)]
  /\ op' = CallOut("find_domain_shared_nodes", <<>>, "void", <<op.name>>)
  /\ UNCHANGED <<env, task, net>>

NextGhostIds ==
  \/ \E r \in DOMAIN mesh : AssignCellRank(r)
  \/ \E r \in DOMAIN mesh : FindSharedNodes(r)

SpecGhostIds == InitGhostIds /\ [][NextGhostIds]_vars

\* the nodes the last find_domain_shared_nodes gave a ghost id
GivenGhostId(m, mpi_rank) ==
  {n \in Range(m.nodes) :
     /\ Cardinality(m.node_mpi_ranks[n]) > 1
     /\ env.use_halo_exchange => mpi_rank \in m.node_mpi_ranks[n]}

\* C24: when find_domain_shared_nodes has returned, in either build, the
\* ghost ids it gave are pairwise distinct and are the numbers 0 .. k-1 for
\* the k nodes that got one, and the ghost id of every node of
\* domain_shared_nodes is below nhalo_nodes_, the size of the buffers that
\* the all-reduce nodal_halo_exchange indexes with it.
C24_GhostIdsDense ==
  \A r \in DOMAIN mesh :
    op.name = "find_domain_shared_nodes" =>
      LET m == mesh[r]
          given == GivenGhostId(m, r)
      IN /\ \A a, b \in given :
              m.node_ghost_id[a] = m.node_ghost_id[b] => a = b
         /\ {m.node_ghost_id[n] : n \in given} = 0 .. (Cardinality(given) - 1)
         /\ ~env.use_halo_exchange =>
              \A n \in Range(m.domain_shared_nodes) :
                m.node_ghost_id[n] < m.nhalo_nodes

-----------------------------------------------------------------------------
\* Sets of several ids (mesh.tcc 1359-1384, 1422-1450): SpecSets

\* lines 1432-1438: the container of one cell set; map_cells_[pid] throws for
\* an id that is no key
RECURSIVE CellsOfSet(_, _, _, _)
CellsOfSet(m, pids, cells, check_dups) ==
  IF pids = <<>> THEN [cells |-> cells, ret |-> "void"]
  ELSE IF ~MapHas(m.map_cells, Head(pids)) THEN [cells |-> cells, ret |-> "throws"]
  ELSE CellsOfSet(m, Tail(pids),
                  ContainerAdd(cells, m.map_cells[Head(pids)], check_dups),
                  check_dups)

\* lines 1430-1446: the sets in the order the input iterates in; the status is
\* that of the last insertion, a throw ends the loop with the status so far
RECURSIVE InsertCellSets(_, _, _, _, _)
InsertCellSets(m, cell_sets, order, status, check_dups) ==
  IF order = <<>> THEN Outcome(m, Bool(status))
  ELSE LET id == Head(order)
           set == CellsOfSet(m, cell_sets[id], <<>>, check_dups)
       IN IF set.ret = "throws" THEN Outcome(m, Bool(status))
          ELSE InsertCellSets(
                 [m EXCEPT !.cell_sets = MapInsert(@, id, set.cells)],
                 cell_sets, Tail(order), ~MapHas(m.cell_sets, id),
                 check_dups)

create_cell_sets(m, cell_sets, check_dups) ==
  {InsertCellSets(m, cell_sets, order, FALSE, check_dups) :
     order \in Orders(DOMAIN cell_sets)}

\* the inputs of SpecSets: up to two sets, of ids 0 and 1, each listing one id;
\* NCells is the id of no cell
TwoSetInputs(listed) == UNION {[S -> {<<x>> : x \in listed}] : S \in SUBSET {0, 1}}

CreateTwoParticleSets(r) ==
  \E particle_sets \in TwoSetInputs({0, 1}), check_dups \in BOOLEAN :
    \E o \in create_particle_sets(mesh[r], particle_sets, check_dups) :
      Returns(r, o, "create_particle_sets", <<particle_sets, check_dups>>)

CreateCellSets(r) ==
  \E cell_sets \in TwoSetInputs({0, 1, NCells}), check_dups \in BOOLEAN :
    \E o \in create_cell_sets(mesh[r], cell_sets, check_dups) :
      Returns(r, o, "create_cell_sets", <<cell_sets, check_dups>>)

\* SpecSets: one rank holds the chain mesh and creates particle sets and cell
\* sets.
InitSets ==
  /\ mesh = [r \in {SpecRank} |-> ChainMesh([c \in CellIds |-> SpecRank])]
  /\ op = Call("init", <<>>, "void") /\ env = NoMPI
  /\ task = [r \in {SpecRank} |-> Idle] /\ net = NoMessages({SpecRank})

NextSets ==
  \/ CreateTwoParticleSets(SpecRank)
  \/ CreateCellSets(SpecRank)

SpecSets == InitSets /\ [][NextSets]_vars

SetsOf(m, name) ==
  IF name = "create_particle_sets" THEN m.particle_sets ELSE m.cell_sets

CreateSetNames == {"create_particle_sets", "create_cell_sets"}

\* C25: a create_particle_sets or create_cell_sets step leaves every set that
\* existed before it as it was, and returns false when a set id of its input
\* existed before it.
C25_SetsImmutable ==
  [][op'.name \in CreateSetNames
       => LET before == SetsOf(mesh[SpecRank], op'.name)
              after == SetsOf(mesh'[SpecRank], op'.name)
          IN /\ \A id \in DOMAIN before :
                  id \in DOMAIN after /\ after[id] = before[id]
             /\ (DOMAIN op'.arg[1] \cap DOMAIN before # {})
                  => op'.ret = "false"]_vars

-----------------------------------------------------------------------------
\* SpecRelocate: particles are added to the chain mesh, move, and are located
\* one at a time; the call keeps the cell id the particle had before it.
LocateParticleCells(r) ==
  \E p \in Range(mesh[r].particles) :
    \E o \in locate_particle_cells(mesh[r], p) :
      /\ mesh' = [mesh EXCEPT ![r] = o.m]
      /\ op' = CallOut("locate_particle_cells", <<p>>, o.ret,
                       <<mesh[r].p_cell_id[p]>>)
      /\ UNCHANGED <<env, task, net>>

NextRelocate ==
  \/ Len(mesh[SpecRank].particles) < MaxLen /\ AddParticle(SpecRank)
  \/ UpdatePosition(SpecRank)
  \/ LocateParticleCells(SpecRank)

SpecRelocate == InitLocate /\ [][NextRelocate]_vars

\* the neighbours of the particle's cell that contain the particle
ContainingNeighbours(m, p) ==
  {n \in m.cell_neighbours[m.p_cell[p]] :
     is_point_in_cell(m.map_cells[n], m.p_coord[p])}

\* C26: a locate_particle_cells call on a particle whose cell still contains
\* it returns true and leaves its cell as it is; on a particle that left its
\* cell for a neighbour of it, the call returns true and the particle is then
\* in a neighbour of the old cell that contains it; and on a particle without
\* a cell, or in neither case, the call returns true with the particle in a
\* containing cell, or false when no cell contains it.
C26_CheapestTestFirst ==
  [][op'.name = "locate_particle_cells" =>
       LET m == mesh[SpecRank]
           m2 == mesh'[SpecRank]
           p == op'.arg[1]
       IN IF m.p_cell_id[p] # INVALID
               /\ is_point_in_cell(m.p_cell[p], m.p_coord[p])
          THEN /\ op'.ret = "true"
               /\ m2.p_cell[p] = m.p_cell[p] /\ m2.p_cell_id[p] = m.p_cell_id[p]
          ELSE IF m.p_cell_id[p] # INVALID /\ ContainingNeighbours(m, p) # {}
          THEN /\ op'.ret = "true"
               /\ m2.p_cell_id[p] \in ContainingNeighbours(m, p)
               /\ m2.p_cell[p] = m.map_cells[m2.p_cell_id[p]]
          ELSE IF ContainingCells(m, p) # {}
          THEN op'.ret = "true" /\ m2.p_cell[p] \in ContainingCells(m, p)
          ELSE op'.ret = "false"]_vars

\* a call has moved a particle from cell 0 to its neighbour, cell 1, at the
\* point that cell 1 shares with cell 2, which is no neighbour of cell 0
C26_Witness ==
  LET m == mesh[SpecRank] IN
  /\ op.name = "locate_particle_cells"
  /\ op.ret = "true"
  /\ op.out = <<0>>
  /\ m.p_cell_id[op.arg[1]] = 1
  /\ m.p_coord[op.arg[1]] = 4
  /\ is_point_in_cell(m.map_cells[2], 4)
  /\ 2 \notin m.cell_neighbours[m.map_cells[0]]

-----------------------------------------------------------------------------
\* SpecTransferRefused: the ranks of SpecTransfer, where rank 0 holds the
\* particle of id 0 in the cell held and was offered a second particle of id 0,
\* in the cell refused, by an add_particle with checks on, which returned
\* false; rank 1 holds no particle. The two maps of the resulting mesh are
\* written out as explicit functions.
SecondParticle == [id |-> 0, k |-> 2]

Refused(m, refused) ==
  IF refused = NoCell THEN m
  ELSE [(CHOOSE o \in add_particle(
                        [m EXCEPT !.p_coord[SecondParticle] = Centre(refused)],
                        SecondParticle, TRUE) : TRUE).m
          EXCEPT !.particles_cell_ids = [x \in DOMAIN @ |-> @[x]],
                 !.map_particles = [x \in DOMAIN @ |-> @[x]]]

RefusedMesh(ranks, held, refused, r) ==
  find_ghost_boundary_cells(
    Refused(WithParticles(ChainMesh(ranks), held, 0), refused), r, NRanks).m

\* rank 0 holds particle 0, rank 1 holds nothing
OnlyParticle ==
  {held \in [Ranks -> [PIds -> CellIds \cup {NoCell}]] :
     \A r \in Ranks, id \in PIds : held[r][id] # NoCell <=> (r = 0 /\ id = 0)}

InitTransferRefused ==
  \E ranks \in [CellIds -> Ranks], held \in OnlyParticle,
     refused \in CellIds \cup {NoCell} :
    /\ mesh = [r \in Ranks |->
                 RefusedMesh(ranks, held[r], IF r = 0 THEN refused ELSE NoCell, r)]
    /\ op = Call("init", <<>>, "void")
    /\ env = [mpi_size |-> NRanks, use_halo_exchange |-> FALSE,
              decompositions |-> 0]
    /\ task = [r \in Ranks |-> Idle]
    /\ net = NoMessages(Ranks)

SpecTransferRefused == InitTransferRefused /\ [][NextTransfer]_vars

\* C27: in transfer_nonrank_particles a particle leaves the map of its rank
\* only in the step that follows the sends for all ghost cells, its id among
\* the ids collected with the records; and no lookup of a particle id in the
\* send loop or in the removal misses the map.
C27_RemovedAfterSends ==
  [][\A r \in DOMAIN mesh :
       /\ \A id \in DOMAIN mesh[r].map_particles \ DOMAIN mesh'[r].map_particles :
            /\ InTransfer(r, "send")
            /\ task[r].i > Len(mesh[r].ghost_cells)
            /\ id \in Range(task[r].remove_pids)
            /\ \E x \in task[r].sent : x.p = mesh[r].map_particles[id]
       /\ InTransfer(r, "send") => task'[r].pc # "aborted"]_vars

\* C28: the count a rank receives in transfer_nonrank_particles is the value
\* the count had when its send was posted: the memory handed to MPI_Isend is
\* neither overwritten nor released before the send is complete.
C28_SendBufferKept ==
  [][\A r \in DOMAIN mesh :
       (InTransfer(r, "recv") /\ task'[r] # task[r] /\ task'[r].pc # "aborted")
         => task'[r].nrecv_particles = Head(net[<<Sender(r), r>>]).val]_vars

-----------------------------------------------------------------------------
\* SpecHaloTwice: the ranks of SpecHalo, where every rank has added the node
\* of id twice (none for NoNode) once more with add_node, duplicate check off,
\* before it found its domain shared nodes.
NoNode == INVALID

AddedTwice(m, twice) ==
  IF twice = NoNode THEN m
  ELSE add_node(m, [id |-> twice, k |-> 1], FALSE).m

InitHaloTwice ==
  \E ranks \in [CellIds -> Ranks], use_halo_exchange \in BOOLEAN,
     twice \in NodeIds \cup {NoNode} :
    /\ mesh = [r \in Ranks |->
                 [find_domain_shared_nodes(AddedTwice(ChainMesh(ranks), twice),
                                           r, use_halo_exchange)
                    EXCEPT !.node_mass = [n \in NodeObjs |-> InitialMass(r, n)]]]
    /\ op = Call("init", <<>>, "void")
    /\ env = [mpi_size |-> NRanks, use_halo_exchange |-> use_halo_exchange,
              decompositions |-> 0]
    /\ task = [r \in Ranks |-> Idle]
    /\ net = NoMessages(Ranks)

SpecHaloTwice == InitHaloTwice /\ [][NextHalo]_vars

\* C29: a rank has never posted more non-blocking sends than the request
\* slots it reserved, and when it waits it has posted as many: ncomms_ in
\* nodal_halo_exchange, the number of ghost cells in
\* transfer_nonrank_particles.
C29_OneRequestPerSend ==
  \A r \in DOMAIN mesh :
    /\ InHalo(r, "send") => Len(task[r].send_requests) <= mesh[r].ncomms
    /\ InHalo(r, "wait") => Len(task[r].send_requests) = mesh[r].ncomms
    /\ InTransfer(r, "send") =>
         Len(task[r].send_requests) <= Len(mesh[r].ghost_cells)
    /\ InTransfer(r, "wait") =>
         Len(task[r].send_requests) = Len(mesh[r].ghost_cells)

\* C30: in direct-exchange mode, while a rank has not returned from
\* nodal_halo_exchange some rank can take a step: no state is reached in
\* which the ranks that have not returned all block in a wait or a receive.
\* (A behaviour takes a bounded number of steps, so this is the same as
\* every rank returning.)
C30_HaloExchangeReturns ==
  env.use_halo_exchange => (AllReturned \/ ENABLED NextHalo)

-----------------------------------------------------------------------------
\* SpecNeighbours: cells are added to and removed from a mesh, and
\* compute_cell_neighbours is called at any time in between.

\* lines 289-316, a call of compute_cell_neighbours; every task of the
\* parallel pass writes the neighbours of its own cell only
ComputeCellNeighbours(r) ==
  Returns(r, Outcome(compute_cell_neighbours(mesh[r]), "void"),
             "compute_cell_neighbours", <<>>)

\* add_cell and remove_cell with any cell of the chain
AddChainCell(r) ==
  \E cell \in CellObjs, check_dups \in BOOLEAN :
    Returns(r, add_cell(mesh[r], cell, check_dups),
               "add_cell", <<cell, check_dups>>)

RemoveChainCell(r) ==
  \E cell \in CellObjs :
    Returns(r, remove_cell(mesh[r], cell), "remove_cell", <<cell>>)

NextNeighbours ==
  \/ Len(mesh[SpecRank].cells) < NCells /\ AddChainCell(SpecRank)
  \/ RemoveChainCell(SpecRank)
  \/ ComputeCellNeighbours(SpecRank)

SpecNeighbours == Init /\ [][NextNeighbours]_vars

\* cells a and b have a node id in common
ShareNode(a, b) == Range(nodes_id(a)) \cap Range(nodes_id(b)) # {}

\* C31: when compute_cell_neighbours has returned, the neighbour set of every
\* cell a of the mesh holds the ids of exactly the other cells of the mesh
\* that have a node id in common with a.
C31_NeighboursShareNode ==
  op.name = "compute_cell_neighbours" =>
    \A a \in Range(mesh[SpecRank].cells) :
      mesh[SpecRank].cell_neighbours[a] =
        {b.id : b \in {c \in Range(mesh[SpecRank].cells) : c # a /\ ShareNode(a, c)}}

-----------------------------------------------------------------------------
\* the cells of the mesh that another rank owns
NonrankCells(m, mpi_rank) == {c \in Range(m.cells) : m.cell_rank[c] # mpi_rank}

\* particle p is in the container and in the map
Held(m, p) ==
  ContainerHas(m.particles, p) /\ MapHas(m.map_particles, p.id)
    /\ m.map_particles[p.id] = p

\* C32: when remove_all_nonrank_particles has returned, every cell another
\* rank owns has an empty particle-id list, every particle that was in the
\* container and in the map and not in such a cell is still in both, and
\* the container and the map hold the same particles.
C32_NonrankParticlesRemoved ==
  [][(op'.name = "remove_all_nonrank_particles" /\ op'.ret = "void") =>
       LET before == mesh[SpecRank]
           after == mesh'[SpecRank]
       IN /\ \A c \in NonrankCells(after, SpecRank) : after.cell_particles[c] = {}
          /\ \A p \in ParticleObjs :
               (Held(before, p) /\ before.p_cell[p] \notin NonrankCells(before, SpecRank))
                 => Held(after, p)
          /\ InSync(after.particles, after.map_particles)
          /\ \A i \in 1 .. Len(after.particles) : Held(after, after.particles[i])]_vars

\* SpecNonrankRefused: the meshes of SpecTransferRefused; rank 0 removes
\* particles by id and calls remove_all_nonrank_particles.
NextNonrankRefused ==
  \/ RemoveParticleById(SpecRank)
  \/ RemoveAllNonrankParticles(SpecRank)

SpecNonrankRefused == InitTransferRefused /\ [][NextNonrankRefused]_vars

-----------------------------------------------------------------------------
\* the count messages rank a sends to rank b: one for every ghost cell of a
\* that b owns (lines 584-602)
CountsSent(a, b) ==
  Cardinality({i \in 1 .. Len(mesh[a].ghost_cells) :
                 mesh[a].cell_rank[mesh[a].ghost_cells[i]] = b})

\* the count messages rank b receives from rank a: one for every local ghost
\* cell of b that lists a as neighbour rank (lines 621-630)
CountsReceived(b, a) ==
  Cardinality({j \in 1 .. Len(mesh[b].local_ghost_cells) :
                 a \in Range(neighbour_ranks(mesh[b], mesh[b].local_ghost_cells[j]))})

\* C33: for every ordered pair of ranks (a, b), rank a sends as many count
\* messages to b as b receives from a, and when all ranks have returned
\* from transfer_nonrank_particles no message is left in a channel.
C33_CountsMatch ==
  /\ \A a, b \in DOMAIN mesh : CountsSent(a, b) = CountsReceived(b, a)
  /\ AllReturned => \A pair \in DOMAIN net : net[pair] = <<>>

\* C34: in transfer_nonrank_particles every receive of a count takes a count
\* message of the sender from the channel, and the receive of records that
\* follows a count other than 0 takes a batch of exactly that many records.
C34_CountThenRecords ==
  [][\A r \in DOMAIN mesh :
       /\ (InTransfer(r, "recv") /\ task'[r] # task[r])
            => Head(net[<<Sender(r), r>>]).kind = "count"
       /\ (InTransfer(r, "recv_batch") /\ task'[r] # task[r])
            => /\ Head(net[<<Sender(r), r>>]).kind = "batch"
               /\ Len(Head(net[<<Sender(r), r>>]).val) = task[r].nrecv_particles]_vars

\* C35: after any sequence of add_particle and remove calls the table of
\* particles_cell_ids() has an entry for exactly the ids of the particles in
\* the container and in the map.
C35_CellIdTableTracksParticles ==
  /\ DOMAIN mesh[SpecRank].particles_cell_ids = ContainerIds(mesh[SpecRank].particles)
  /\ DOMAIN mesh[SpecRank].particles_cell_ids = DOMAIN mesh[SpecRank].map_particles

-----------------------------------------------------------------------------
\* SpecConstraintIds: the mesh of SpecConstraints, without particles, with
\* callers that hand create_particle_velocity_constraint a set id and a
\* constraint object built for any set id, the same or another one.
CreateVelocityConstraintFor(r) ==
  \E set_id \in SetIdArgs, setid \in SetIdArgs, dir \in Directions :
    LET constraint == VelocityConstraint(setid, dir, 1)
        o == create_particle_velocity_constraint(mesh[r], set_id, constraint)
    IN /\ mesh' = [mesh EXCEPT ![r] = o.m]
       /\ op' = Call("create_particle_velocity_constraint", <<set_id, constraint>>, o.ret)
       /\ task' = [task EXCEPT ![r] =
                     Created("create_particle_velocity_constraint", set_id, o.ret,
                             mesh[r])]
       /\ UNCHANGED <<env, net>>

NextConstraintIds ==
  \/ ConstraintRoom(mesh[SpecRank]) /\ CreateVelocityConstraintFor(SpecRank)
  \/ ConstraintRoom(mesh[SpecRank]) /\ CreateParticlesTractions(SpecRank)
  \/ ApplyParticleVelocityConstraints(SpecRank)
  \/ ApplyTractionOnParticles(SpecRank)

SpecConstraintIds == InitConstraints /\ [][NextConstraintIds]_vars

\* the set id of a stored constraint or traction is -1 or names a particle set
SetExists(m, stored) == stored.setid = -1 \/ MapHas(m.particle_sets, stored.setid)

\* C36: every particle velocity constraint and every particle traction the
\* mesh stores has, as its own set id, -1 or the id of a particle set of the
\* mesh, and no apply call looks up a missing set.
C36_StoredSetIdsExist ==
  LET m == mesh[SpecRank] IN
  /\ \A i \in 1 .. Len(m.particle_velocity_constraints) :
       SetExists(m, m.particle_velocity_constraints[i])
  /\ \A i \in 1 .. Len(m.particle_tractions) : SetExists(m, m.particle_tractions[i])
  /\ op.name \in ApplyNames => op.ret # "throws"

\* C37: when iterate_over_particle_set returns for the id of an existing set,
\* every particle the operator was applied to carries an id the set stores:
\* an id of 2^32 or more is looked up as it is, and no particle of another id
\* is visited in its place.
C37_VisitedIdsAreSetIds ==
  (/\ op.name = "iterate_over_particle_set"
   /\ op.arg # <<-1>>
   /\ op.ret = "void"
   /\ MapHas(mesh[SpecRank].particle_sets, op.arg[1]))
    => \A i \in 1 .. Len(op.out) :
         op.out[i].id \in Range(mesh[SpecRank].particle_sets[op.arg[1]])

-----------------------------------------------------------------------------
\* SpecScan: the scan of all cells (mesh.tcc 765-779) one step of one cell's
\* test at a time. parallel_for_each runs the lambda of every cell as a task
\* of its own; `status` is a plain bool captured by reference and
\* assign_cell_xi is called without a lock, so the tasks read and write the
\* flag, the particle's cell and the cells' id lists in any interleaving.

\* lines 746-763 did not return: the particle has no cell id, or its cell and
\* the neighbours of its cell do not contain it
ScanReached(m, p) ==
  \/ m.p_cell_id[p] = INVALID
  \/ /\ m.p_cell_id[p] # INVALID
     /\ m.p_cell[p] # NULL
     /\ MapHas(m.map_cells, m.p_cell_id[p])
     /\ ~compute_reference_location(m, p)
     /\ NeighbourStops(m, p) = {}

\* the cells whose id list holds the id
ListedIn(m, id) == {c \in CellObjs : id \in m.cell_particles[c]}

\* line 765 and the call of parallel_for_each: no cell tested, status false
\* (before: the cells that list the particle's id when the scan begins)
ScanTask(m, p) ==
  [name |-> "locate_particle_cells", pc |-> "scan", todo |-> Range(m.cells),
   next |-> <<>>, particle |-> p, status |-> FALSE, leaving |-> {},
   joining |-> {}, before |-> ListedIn(m, p.id)]

BeginScan(r) ==
  /\ task[r] = Idle
  /\ \E p \in Range(mesh[r].particles) :
       /\ ScanReached(mesh[r], p)
       /\ task' = [task EXCEPT ![r] = ScanTask(mesh[r], p)]
  /\ UNCHANGED <<mesh, op, env, net>>

\* line 773: the flag and the containment test of one cell
TestCell(r) ==
  /\ task[r].pc = "scan"
  /\ \E cell \in task[r].todo :
       task' = [task EXCEPT ![r] =
                  [@ EXCEPT !.todo = @ \ {cell},
                            !.leaving =
                              IF /\ ~task[r].status
                                 /\ is_point_in_cell(cell,
                                                     mesh[r].p_coord[task[r].particle])
                              THEN @ \cup {cell} ELSE @]]
  /\ UNCHANGED <<mesh, op, env, net>>

\* line 774, first half of assign_cell_xi: the particle leaves the cell it
\* is in when this task reads it
LeaveCell(r) ==
  /\ task[r].pc = "scan"
  /\ \E cell \in task[r].leaving :
       LET p == task[r].particle
           old == mesh[r].p_cell[p]
       IN /\ mesh' = [mesh EXCEPT ![r].cell_particles =
                        IF old = NULL THEN @ ELSE [@ EXCEPT ![old] = @ \ {p.id}]]
          /\ task' = [task EXCEPT ![r] =
                        [@ EXCEPT !.leaving = @ \ {cell},
                                  !.joining = @ \cup {cell}]]
  /\ UNCHANGED <<op, env, net>>

\* line 774, second half of assign_cell_xi, and line 775: the particle takes
\* the cell and its id, the cell lists the particle's id, the flag is set
JoinCell(r) ==
  /\ task[r].pc = "scan"
  /\ \E cell \in task[r].joining :
       LET p == task[r].particle IN
       /\ mesh' = [mesh EXCEPT ![r] =
                     [@ EXCEPT !.cell_particles = [@ EXCEPT ![cell] = @ \cup {p.id}],
                               !.p_cell = [@ EXCEPT ![p] = cell],
                               !.p_cell_id = [@ EXCEPT ![p] = cell.id]]]
       /\ task' = [task EXCEPT ![r] =
                     [@ EXCEPT !.joining = @ \ {cell}, !.status = TRUE]]
  /\ UNCHANGED <<op, env, net>>

\* line 778, after every task of parallel_for_each has ended
ScanReturns(r) ==
  /\ task[r].pc = "scan"
  /\ task[r].todo = {} /\ task[r].leaving = {} /\ task[r].joining = {}
  /\ op' = CallOut("locate_particle_cells", <<task[r].particle>>,
                   Bool(task[r].status), <<task[r].before>>)
  /\ task' = [task EXCEPT ![r] = Idle]
  /\ UNCHANGED <<mesh, env, net>>

NextScan ==
  \/ task[SpecRank] = Idle /\ Len(mesh[SpecRank].particles) < MaxLen
       /\ AddParticle(SpecRank)
  \/ task[SpecRank] = Idle /\ UpdatePosition(SpecRank)
  \/ BeginScan(SpecRank)
  \/ TestCell(SpecRank)
  \/ LeaveCell(SpecRank)
  \/ JoinCell(SpecRank)
  \/ ScanReturns(SpecRank)

SpecScan == InitLocate /\ [][NextScan]_vars

\* C38: when the scan of all cells returns true for a particle whose id no
\* cell listed when the scan began, whatever the interleaving of the cell
\* tests, the particle's id is in the id list of exactly one cell and the
\* particle's cell id names that cell.
C38_ScanAssignsOneCell ==
  LET m == mesh[SpecRank]
      p == op.arg[1]
  IN (/\ task[SpecRank] = Idle
      /\ op.name = "locate_particle_cells"
      /\ op.ret = "true"
      /\ op.out = <<{}>>)
       => /\ Cardinality(ListedIn(m, p.id)) = 1
          /\ ListedIn(m, p.id) = {m.p_cell[p]}
          /\ m.p_cell_id[p] = m.p_cell[p].id

-----------------------------------------------------------------------------
\* SpecHaloReduce: the all-reduce build on DomainSize ranks. Every rank holds
\* the chain mesh with the same nodes, possibly one of them added twice, the
\* same cells and the same owning ranks, and its own nodal masses; each rank
\* finds its domain shared nodes and then exchanges the masses.
InitHaloReduce ==
  \E ranks \in [CellIds -> DomainRanks], twice \in NodeIds \cup {NoNode} :
    /\ mesh = [r \in DomainRanks |->
                 [AddedTwice(ChainMesh(ranks), twice)
                    EXCEPT !.node_mass = [n \in NodeObjs |-> InitialMass(r, n)]]]
    /\ op = Call("init", <<>>, "void")
    /\ env = [mpi_size |-> DomainSize, use_halo_exchange |-> FALSE,
              decompositions |-> 0]
    /\ task = [r \in DomainRanks |-> Idle]
    /\ net = NoMessages(DomainRanks)

\* the rank's last find_domain_shared_nodes saw the mesh as it is
Found(r) == mesh[r] = find_domain_shared_nodes(mesh[r], r, env.use_halo_exchange)

NextHaloReduce ==
  \/ \E r \in DOMAIN mesh : task[r] = Idle /\ FindSharedNodes(r)
  \/ \E r \in DOMAIN mesh : Found(r) /\ BeginHalo(r)
  \/ \E r \in DOMAIN mesh : HaloGather(r)
  \/ \E r \in DOMAIN mesh : HaloReduce(r)
  \/ \E r \in DOMAIN mesh : HaloReturns(r)

SpecHaloReduce == InitHaloReduce /\ [][NextHaloReduce]_vars

\* the nodes of the mesh that cells of more than one rank hold
SharedByRanks(m) == {n \in Range(m.nodes) : Cardinality(m.node_mpi_ranks[n]) > 1}

InExchange(r) == task[r].name = "nodal_halo_exchange"

\* C39: in the all-reduce build, with the same nodes, cells and owning ranks
\* on every rank, the ranks that have found their shared nodes and entered
\* nodal_halo_exchange agree on nhalo_nodes_ and on the ghost id of every node
\* shared between ranks, whether they own the node or not; the buffer a rank
\* hands to the all-reduce holds, at the ghost id of a shared node, the
\* rank's own value if the rank owns the node and zero if it does not; and
\* the value stored for a shared node is the sum over the ranks that own it.
C39_AllReduceGhostIdsAgree ==
  ~env.use_halo_exchange =>
    /\ \A r, s \in DOMAIN mesh :
         (InExchange(r) /\ InExchange(s)) =>
           /\ mesh[r].nhalo_nodes = mesh[s].nhalo_nodes
           /\ SharedByRanks(mesh[r]) = SharedByRanks(mesh[s])
           /\ \A n \in SharedByRanks(mesh[r]) :
                mesh[r].node_ghost_id[n] = mesh[s].node_ghost_id[n]
    /\ \A s \in DOMAIN mesh :
         net[<<s, s>>] # <<>> =>
           /\ Len(net[<<s, s>>][1].val) = mesh[s].nhalo_nodes
           /\ \A n \in SharedByRanks(mesh[s]) :
                net[<<s, s>>][1].val[mesh[s].node_ghost_id[n] + 1] =
                  IF s \in mesh[s].node_mpi_ranks[n] THEN InitialMass(s, n) ELSE 0
    /\ \A r \in DOMAIN mesh :
         task[r].pc \in {"return", "returned"} =>
           \A n \in SharedByRanks(mesh[r]) :
             r \in mesh[r].node_mpi_ranks[n] =>
               mesh[r].node_mass[n] =
                 Sum([s \in mesh[r].node_mpi_ranks[n] |-> InitialMass(s, n)])

\* three ranks have returned from the exchange; node 1 is shared by ranks 0
\* and 1 only, rank 2 gave it the same ghost id as they did and handed zero
\* for it to the all-reduce, and rank 0 stored the sum of the two masses
C39_Witness ==
  LET n == [id |-> 1, k |-> 1] IN
  /\ ~env.use_halo_exchange
  /\ AllReturned
  /\ op.name = "nodal_halo_exchange"
  /\ mesh[0].node_mpi_ranks[n] = {0, 1}
  /\ mesh[2].node_mpi_ranks[n] = {0, 1}
  /\ mesh[2].node_ghost_id[n] = mesh[0].node_ghost_id[n]
  /\ ~ContainerHas(mesh[2].domain_shared_nodes, n)
  /\ net[<<2, 2>>][1].val[mesh[2].node_ghost_id[n] + 1] = 0
  /\ net[<<0, 0>>][1].val[mesh[0].node_ghost_id[n] + 1] = InitialMass(0, n)
  /\ mesh[0].node_mass[n] = InitialMass(0, n) + InitialMass(1, n)
  /\ mesh[2].nhalo_nodes > 1

====
